---------------------------- MODULE Spec2Model ----------------------------
(***************************************************************************)
(* Model of the Fock-space basis engine of cmpy (src/cmpy/core/basis.py):  *)
(* the binary state encoding, the spin-state enumeration, the partition    *)
(* into filling sectors and the containers SpinSector / BasisSector /      *)
(* FockBasis.                                                              *)
(*                                                                         *)
(* Conventions.                                                            *)
(*  - A Python value that may be None is a sequence of length <= 1:        *)
(*    <<>> is None, <<n>> is the integer n.                                *)
(*  - A Python string of binary digits is a sequence of 0/1.               *)
(*  - The result of the last call is kept in `ret`:                        *)
(*      op   the function or method called                                 *)
(*      args its arguments, a record                                       *)
(*      kind "none" | "int" | "list" | "sector" | "pair" | "exc"           *)
(*      val  the returned value (the exception name for kind "exc")        *)
(***************************************************************************)
EXTENDS Integers, Sequences, FiniteSets, TLC

VARIABLES
    BITS,   \* the process-wide default digit width (basis.py:14)
    basis,  \* the FockBasis instance
    held,   \* the caller's variable `sector`: None or the last sector obtained
    gen,    \* the caller's generator object from iter_sectors(), or None
    ret     \* the last call and its result

vars == <<BITS, basis, held, gen, ret>>

\* ------------------------------------------------------------------------
\* Bounds of the model
\* ------------------------------------------------------------------------

\* largest site count passed to init_basis
MaxSites == 2

\* largest site count passed to the free function create_spinstates
MaxEnumSites == 8

\* program constants (basis.py:14, basis.py:17)
DefaultBits == 4
UP == 1
DN == -1

\* __BITORDER__ (basis.py:12)
BITORDER == -1

\* the glyphs of a label (basis.py:19-21); "u" stands for the up arrow,
\* "d" for the down arrow, "<" and ">" for the angle brackets
EMPTY == "."
UP_CHAR == "u"
DN_CHAR == "d"

\* the glyph of a doubly occupied site (basis.py:22); "x" stands for it
UD_CHAR == "x"

\* ------------------------------------------------------------------------
\* Python values
\* ------------------------------------------------------------------------

None == <<>>
Some(n) == <<n>>
IsNone(x) == x = <<>>

Pow2(k) == 2 ^ k

\* bin(num)[2:] for num >= 0: the binary digits, most significant first
RECURSIVE BinDigits(_)
BinDigits(num) ==
    IF num < 2 THEN <<num>> ELSE Append(BinDigits(num \div 2), (num % 2))

\* str.count("1") on a digit string
RECURSIVE CountOnes(_)
CountOnes(str) ==
    IF str = <<>> THEN 0
    ELSE (IF Head(str) = 1 THEN 1 ELSE 0) + CountOnes(Tail(str))

\* int(str, base=2): parses a digit string; the empty string is a ValueError
RECURSIVE ParseBase2(_)
ParseBase2(str) ==
    IF str = <<>> THEN 0
    ELSE 2 * ParseBase2(SubSeq(str, 1, Len(str) - 1)) + str[Len(str)]

IntBase2(str) == IF str = <<>> THEN None ELSE Some(ParseBase2(str))

\* "1" * n : string repetition, empty for n <= 0
Ones(n) == [i \in 1..(IF n > 0 THEN n ELSE 0) |-> 1]

\* a & b and a ^ b on non-negative integers, bit by bit
RECURSIVE BitAnd(_, _)
BitAnd(a, b) ==
    IF a = 0 \/ b = 0 THEN 0
    ELSE 2 * BitAnd(a \div 2, b \div 2) + (a % 2) * (b % 2)

RECURSIVE BitXor(_, _)
BitXor(a, b) ==
    IF a = 0 THEN b
    ELSE IF b = 0 THEN a
    ELSE 2 * BitXor(a \div 2, b \div 2) + (((a % 2) + (b % 2)) % 2)

\* ------------------------------------------------------------------------
\* Free functions on binary states
\* ------------------------------------------------------------------------

\* mutant: the occupation test is dropped, the bit is always flipped
create_noguard(num, pos) == Some(BitXor(num, Pow2(pos)))

\* create(num, pos): Some(new state) or None
create(num, pos) ==
    LET op == Pow2(pos)
    IN IF BitAnd(op, num) = 0 THEN Some(BitXor(num, op)) ELSE None

\* mutant: annihilate clears the neighbouring bit as well
annihilate_wide(num, pos) ==
    LET op == Pow2(pos)
    IN IF BitAnd(op, num) # 0
       THEN Some(BitXor(BitXor(num, op), BitAnd(num, 2 * op)))
       ELSE None

\* annihilate(num, pos): Some(new state) or None
annihilate(num, pos) ==
    LET op == Pow2(pos)
    IN IF BitAnd(op, num) # 0 THEN Some(BitXor(num, op)) ELSE None

\* SpinState.n : bin(self).count("1")
popcount(num) == CountOnes(BinDigits(num))

\* ------------------------------------------------------------------------
\* Digit strings and labels
\* ------------------------------------------------------------------------

Max(a, b) == IF a >= b THEN a ELSE b

\* seq[::step] for step 1 (a copy) and step -1 (reversed)
Stride(seq, step) ==
    IF step = 1 THEN seq
    ELSE [i \in 1..Len(seq) |-> seq[Len(seq) + 1 - i]]

\* num >> i & 1
ShiftBit(num, i) == (num \div Pow2(i)) % 2

\* f"{num:0{fill}b}": the binary digits as characters, most significant
\* first, padded with "0" on the left to at least `fill` characters
FormatBinary(num, fill) ==
    LET digs == BinDigits(num)
        pad == Max(fill - Len(digs), 0)
    IN [i \in 1..(pad + Len(digs)) |->
           IF i <= pad THEN "0"
           ELSE IF digs[i - pad] = 1 THEN "1" ELSE "0"]

\* mutant: a width of 0 is taken as "no width given"
binstr_falsy(num, digits) ==
    LET fill == IF ~IsNone(digits) /\ digits[1] # 0 THEN digits[1] ELSE BITS
    IN Stride(FormatBinary(num, fill), BITORDER)

\* binstr(num, digits)
binstr(num, digits) ==
    LET fill == IF ~IsNone(digits) THEN digits[1] ELSE BITS
    IN Stride(FormatBinary(num, fill), BITORDER)

\* binarr(num, digits): np.fromiter over the characters of the digit string
binarr(num, digits) ==
    LET fill == IF ~IsNone(digits) THEN digits[1] ELSE BITS
        str == Stride(FormatBinary(num, fill), BITORDER)
    IN [i \in 1..Len(str) |-> IF str[i] = "1" THEN 1 ELSE 0]

\* mutant: the exclusive or of the two states is rendered
overlap_xor(num1, num2, digits) == binarr(BitXor(num1, num2), digits)

\* overlap(num1, num2, digits)
overlap(num1, num2, digits) == binarr(BitAnd(num1, num2), digits)

\* mutant: the characters are reversed the way binstr reverses its digits
spinstate_label_reversed(spinstate, sigma, digits, bra, ket) ==
    LET spinchar == IF sigma = UP THEN UP_CHAR ELSE DN_CHAR
        d == IF ~IsNone(digits) THEN digits[1] ELSE BITS
        min_digits == Len(BinDigits(spinstate))
        num_chars == Max(min_digits, d)
        chars == [i \in 1..num_chars |->
                     IF ShiftBit(spinstate, i - 1) = 1 THEN spinchar ELSE EMPTY]
        label == Stride(chars, BITORDER)
    IN IF bra THEN <<"<">> \o label \o <<"|">>
       ELSE IF ket THEN <<"|">> \o label \o <<">">>
       ELSE label

\* spinstate_label(spinstate, sigma, digits, bra, ket): the label as the
\* sequence of its characters
spinstate_label(spinstate, sigma, digits, bra, ket) ==
    LET spinchar == IF sigma = UP THEN UP_CHAR ELSE DN_CHAR
        d == IF ~IsNone(digits) THEN digits[1] ELSE BITS
        min_digits == Len(BinDigits(spinstate))
        num_chars == Max(min_digits, d)
        chars == [i \in 1..num_chars |->
                     IF ShiftBit(spinstate, i - 1) = 1 THEN spinchar ELSE EMPTY]
        label == Stride(chars, -BITORDER)
    IN IF bra THEN <<"<">> \o label \o <<"|">>
       ELSE IF ket THEN <<"|">> \o label \o <<">">>
       ELSE label

\* mutant: the width that was passed is ignored, the default is used
state_label_default_width(up_num, dn_num, digits, bra, ket) ==
    LET min_digits == Max(Len(BinDigits(up_num)), Len(BinDigits(dn_num)))
        num_chars == Max(min_digits, BITS)
        chars == [i \in 1..num_chars |->
                     LET u == ShiftBit(up_num, i - 1)
                         d == ShiftBit(dn_num, i - 1)
                     IN IF u = 1 /\ d = 0 THEN UP_CHAR
                        ELSE IF u = 0 /\ d = 1 THEN DN_CHAR
                        ELSE IF u + d = 0 THEN EMPTY ELSE UD_CHAR]
        label == Stride(chars, -BITORDER)
    IN IF bra THEN <<"<">> \o label \o <<"|">>
       ELSE IF ket THEN <<"|">> \o label \o <<">">>
       ELSE label

\* state_label(up_num, dn_num, digits, bra, ket): the label of a composite
\* state as the sequence of its characters
state_label(up_num, dn_num, digits, bra, ket) ==
    LET dig == IF ~IsNone(digits) THEN digits[1] ELSE BITS
        min_digits == Max(Len(BinDigits(up_num)), Len(BinDigits(dn_num)))
        num_chars == Max(min_digits, dig)
        chars == [i \in 1..num_chars |->
                     LET u == ShiftBit(up_num, i - 1)
                         d == ShiftBit(dn_num, i - 1)
                     IN IF u = 1 /\ d = 0 THEN UP_CHAR
                        ELSE IF u = 0 /\ d = 1 THEN DN_CHAR
                        ELSE IF u + d = 0 THEN EMPTY ELSE UD_CHAR]
        label == Stride(chars, -BITORDER)
    IN IF bra THEN <<"<">> \o label \o <<"|">>
       ELSE IF ket THEN <<"|">> \o label \o <<">">>
       ELSE label

\* mutant: the states are listed from max_int down to 0
create_spinstates_desc(num_sites) ==
    LET max_int == IntBase2(Ones(num_sites))
    IN IF IsNone(max_int) THEN None
       ELSE Some([i \in 1..(max_int[1] + 1) |-> max_int[1] + 1 - i])

\* create_spinstates(num_sites): Some(list of states), or None where
\* int("1" * num_sites, base=2) raises ValueError
create_spinstates(num_sites) ==
    LET max_int == IntBase2(Ones(num_sites))
    IN IF IsNone(max_int) THEN None
       ELSE Some([i \in 1..(max_int[1] + 1) |-> i - 1])

\* ------------------------------------------------------------------------
\* Results of a call
\* ------------------------------------------------------------------------

RetNone == [kind |-> "none", val |-> <<>>]
RetInt(n) == [kind |-> "int", val |-> n]
RetList(l) == [kind |-> "list", val |-> l]
RetPair(p) == [kind |-> "pair", val |-> p]
RetSector(s) == [kind |-> "sector", val |-> s]
RetExc(e) == [kind |-> "exc", val |-> e]
RetStr(s) == [kind |-> "str", val |-> s]

\* `return sector`: the result is the object the caller passed in
RetArg(s) == [kind |-> "sector", val |-> s, is_arg |-> TRUE]

\* the result is the very object that was passed as an argument
IsArg(r) == "is_arg" \in DOMAIN r /\ r.is_arg

\* a list object of the basis: the attribute that holds it, and the key
\* under which the dict self._sectors holds it
SectorsSlot(n) == [attr |-> "_sectors", key |-> Some(n)]
SpinstatesSlot == [attr |-> "_spinstates", key |-> None]
NewObject == [attr |-> "", key |-> None]

\* `return <the list held in slot>`: the result is that list object itself
RetRef(l, slot) == [kind |-> "list", val |-> l, refs |-> <<slot>>]

\* the list objects a result is or holds; a result that does not say is a
\* new object
Refs(r) == IF "refs" \in DOMAIN r THEN r.refs ELSE <<NewObject>>

\* an optional integer as a result
RetOpt(x) == IF IsNone(x) THEN RetNone ELSE RetInt(x[1])

\* SpinState.create(pos): SpinState(create(self, pos)); int(None) raises
SpinState_create(self, pos) ==
    LET new == create(self, pos)
    IN IF IsNone(new) THEN RetExc("TypeError") ELSE RetInt(new[1])

\* SpinState.annihilate(pos): SpinState(annihilate(self, pos))
SpinState_annihilate(self, pos) ==
    LET new == annihilate(self, pos)
    IN IF IsNone(new) THEN RetExc("TypeError") ELSE RetInt(new[1])

\* ------------------------------------------------------------------------
\* FockBasis: construction and initialisation
\* ------------------------------------------------------------------------

\* an insertion-ordered dict: the keys in insertion order and the mapping
EmptyDict == [keys |-> <<>>, map |-> [k \in {} |-> <<>>]]

InKeys(d, k) == \E i \in 1..Len(d.keys) : d.keys[i] = k

\* sectors[k].append(state) on a defaultdict(list)
DictAppend(d, k, state) ==
    IF InKeys(d, k)
    THEN [d EXCEPT !.map[k] = Append(@, state)]
    ELSE [keys |-> Append(d.keys, k),
          map |-> [j \in DOMAIN d.map \cup {k} |->
                      IF j = k THEN <<state>> ELSE d.map[j]]]

\* mutant: the bucket key is the number of zero digits of bin(state)
RECURSIVE GroupByZeros(_, _)
GroupByZeros(states, d) ==
    IF states = <<>> THEN d
    ELSE GroupByZeros(Tail(states),
             DictAppend(d, Len(BinDigits(Head(states))) - popcount(Head(states)),
                        Head(states)))

\* for state in spinstates: sectors[state.n].append(state)
RECURSIVE GroupByFilling(_, _)
GroupByFilling(states, d) ==
    IF states = <<>> THEN d
    ELSE GroupByFilling(Tail(states),
             DictAppend(d, popcount(Head(states)), Head(states)))

\* FockBasis.__init__ before init_basis: _sectors is the bare class
\* `defaultdict` (is_class), not a dict instance
NewBasis(num_sites) ==
    [num_sites |-> num_sites, size |-> 0, spinstates |-> <<>>,
     is_class |-> TRUE, sectors |-> EmptyDict, fillings |-> <<>>]

\* mutant: the states are appended to the buckets the basis already has
init_basis_reuse(b, num_sites) ==
    LET spinstates == create_spinstates(num_sites)
    IN IF IsNone(spinstates) THEN None
       ELSE LET sectors == GroupByFilling(spinstates[1], b.sectors)
                num_spinstates == Len(spinstates[1])
            IN Some([num_sites |-> num_sites,
                     size |-> num_spinstates * num_spinstates,
                     spinstates |-> spinstates[1],
                     is_class |-> FALSE,
                     sectors |-> sectors,
                     fillings |-> sectors.keys])

\* mutant: a fillings catalogue that exists already is not refreshed
init_basis_stale_fillings(b, num_sites) ==
    LET spinstates == create_spinstates(num_sites)
    IN IF IsNone(spinstates) THEN None
       ELSE LET sectors == GroupByFilling(spinstates[1], EmptyDict)
                num_spinstates == Len(spinstates[1])
            IN Some([num_sites |-> num_sites,
                     size |-> num_spinstates * num_spinstates,
                     spinstates |-> spinstates[1],
                     is_class |-> FALSE,
                     sectors |-> sectors,
                     fillings |-> IF b.fillings = <<>> THEN sectors.keys
                                  ELSE b.fillings])

\* FockBasis.init_basis(num_sites): Some(the basis afterwards), or None
\* where create_spinstates raises and the basis is left as it was
init_basis(b, num_sites) ==
    LET spinstates == create_spinstates(num_sites)
    IN IF IsNone(spinstates) THEN None
       ELSE LET sectors == GroupByFilling(spinstates[1], EmptyDict)
                num_spinstates == Len(spinstates[1])
            IN Some([num_sites |-> num_sites,
                     size |-> num_spinstates * num_spinstates,
                     spinstates |-> spinstates[1],
                     is_class |-> FALSE,
                     sectors |-> sectors,
                     fillings |-> sectors.keys])

\* ------------------------------------------------------------------------
\* BasisSector
\* ------------------------------------------------------------------------

\* BasisSector.__init__
BasisSector(num_sites, n_up, n_dn, up_states, dn_states) ==
    [num_sites |-> num_sites, n_up |-> n_up, n_dn |-> n_dn,
     up_states |-> up_states, dn_states |-> dn_states]

\* mutant: the size is the number of spin states of both species together
BasisSector_size_sum(s) == Len(s.up_states) + Len(s.dn_states)

\* BasisSector.size
BasisSector_size(s) == Len(s.up_states) * Len(s.dn_states)

\* StateContainer.shape
StateContainer_shape(size) == <<size, size>>

\* product(ups, dns): for up in ups: for dn in dns: yield (up, dn)
RECURSIVE ProductInner(_, _)
ProductInner(up, dns) ==
    IF dns = <<>> THEN <<>>
    ELSE <<(<<up, Head(dns)>>)>> \o ProductInner(up, Tail(dns))

RECURSIVE Product(_, _)
Product(ups, dns) ==
    IF ups = <<>> THEN <<>>
    ELSE ProductInner(Head(ups), dns) \o Product(Tail(ups), dns)

\* mutant: the loops are nested the other way round
RECURSIVE ProductDnOuter(_, _)
ProductDnOuter(ups, dns) ==
    IF dns = <<>> THEN <<>>
    ELSE [i \in 1..Len(ups) |-> <<ups[i], Head(dns)>>]
            \o ProductDnOuter(ups, Tail(dns))

BasisSector_states_dn_outer(s) == ProductDnOuter(s.up_states, s.dn_states)

\* BasisSector.states, materialised: State(up, dn) for every pair of
\* product(up_states, dn_states)
BasisSector_states(s) == Product(s.up_states, s.dn_states)

\* list[i] with Python's index rules: Some(element), or None for IndexError
PyIndex(list, i) ==
    IF i >= 0 /\ i < Len(list) THEN Some(list[i + 1])
    ELSE IF i < 0 /\ i >= -Len(list) THEN Some(list[Len(list) + i + 1])
    ELSE None

\* mutant: the multiplier is the number of up states
get_state_index_upcount(s, idx_up, idx_dn) ==
    idx_up * Len(s.up_states) + idx_dn

\* BasisSector.get_state_index
get_state_index(s, idx_up, idx_dn) == idx_up * BasisSector_size(s) + idx_dn

\* BasisSector.get_spin_states
get_spin_states(s, state_idx) ==
    IF BasisSector_size(s) = 0 THEN RetExc("ZeroDivisionError")
    ELSE LET idx_up == state_idx \div BasisSector_size(s)
             idx_dn == state_idx % BasisSector_size(s)
             up == PyIndex(s.up_states, idx_up)
             dn == PyIndex(s.dn_states, idx_dn)
         IN IF IsNone(up) \/ IsNone(dn) THEN RetExc("IndexError")
            ELSE RetPair(<<up[1], dn[1]>>)

\* ------------------------------------------------------------------------
\* FockBasis: queries
\* ------------------------------------------------------------------------

\* x in list
InList(x, list) == \E i \in 1..Len(list) : list[i] = x

\* mutant: the filling is ignored, the full list is always returned
get_spinstates_all(b, n) ==
    IF b.is_class THEN RetExc("TypeError") ELSE RetList(b.spinstates)

\* mutant: an unknown filling yields an empty list
get_spinstates_empty(b, n) ==
    IF b.is_class THEN RetExc("TypeError")
    ELSE IF ~IsNone(n) /\ InKeys(b.sectors, n[1])
         THEN RetList(b.sectors.map[n[1]])
         ELSE RetList(<<>>)

\* mutant: a copy of the list is returned
get_spinstates_copy(b, n) ==
    IF b.is_class THEN RetExc("TypeError")
    ELSE IF ~IsNone(n) /\ InKeys(b.sectors, n[1])
         THEN RetList(b.sectors.map[n[1]])
         ELSE RetList(b.spinstates)

\* FockBasis.get_spinstates: self._sectors.get(n, self._spinstates); on the
\* bare class `defaultdict` the call is dict.get(n, default) with n as self
get_spinstates(b, n) ==
    IF b.is_class THEN RetExc("TypeError")
    ELSE IF ~IsNone(n) /\ InKeys(b.sectors, n[1])
         THEN RetRef(b.sectors.map[n[1]], SectorsSlot(n[1]))
         ELSE RetRef(b.spinstates, SpinstatesSlot)

\* mutant: a passed sector is ignored and a sector is built all the same
get_sector_rebuild(b, n_up, n_dn, sector) ==
    LET up_states == get_spinstates(b, n_up)
        dn_states == get_spinstates(b, n_dn)
    IN IF up_states.kind = "exc" THEN up_states
       ELSE IF dn_states.kind = "exc" THEN dn_states
       ELSE RetSector(BasisSector(b.num_sites, n_up, n_dn,
                                  up_states.val, dn_states.val))

\* FockBasis.get_sector; `sector` is None or Some(a BasisSector)
get_sector(b, n_up, n_dn, sector) ==
    IF IsNone(n_up) /\ IsNone(n_dn) /\ ~IsNone(sector)
    THEN RetArg(sector[1])
    ELSE LET up_states == get_spinstates(b, n_up)
             dn_states == get_spinstates(b, n_dn)
         IN IF up_states.kind = "exc" THEN up_states
            ELSE IF dn_states.kind = "exc" THEN dn_states
            ELSE [kind |-> "sector",
                  val |-> BasisSector(b.num_sites, n_up, n_dn,
                                      up_states.val, dn_states.val),
                  refs |-> <<Refs(up_states)[1], Refs(dn_states)[1]>>]

\* the fillings get_next_sector starts from
StartFilling(n_up, n_dn, sector) ==
    IF ~IsNone(sector) THEN <<sector[1].n_up, sector[1].n_dn>>
    ELSE <<n_up, n_dn>>

\* FockBasis.get_next_sector
get_next_sector(b, n_up, n_dn, sector, sigma, delta) ==
    LET start == StartFilling(n_up, n_dn, sector)
        shifted == IF sigma = UP THEN start[1] ELSE start[2]
    IN IF IsNone(shifted) THEN RetExc("TypeError")
       ELSE LET new_up == IF sigma = UP THEN Some(start[1][1] + delta)
                          ELSE start[1]
                new_dn == IF sigma = UP THEN start[2]
                          ELSE Some(start[2][1] + delta)
            IN IF IsNone(new_up) \/ ~InList(new_up[1], b.fillings)
                  \/ IsNone(new_dn) \/ ~InList(new_dn[1], b.fillings)
               THEN RetNone
               ELSE get_sector(b, new_up, new_dn, None)

\* mutant: the lookup is self._sectors[n], which on a defaultdict(list)
\* adds an empty bucket for a key it does not have
sectors_after_getitem(d, n) ==
    IF IsNone(n) \/ InKeys(d, n[1]) THEN d
    ELSE [keys |-> Append(d.keys, n[1]),
          map |-> [k \in DOMAIN d.map \cup {n[1]} |->
                      IF k \in DOMAIN d.map THEN d.map[k] ELSE <<>>]]

\* the dict self._sectors after self._sectors.get(n, default): dict.get
\* adds no key
sectors_after_get(d, n) == d

\* the basis after get_spinstates(n)
basis_after_get_spinstates(b, n) ==
    IF b.is_class THEN b
    ELSE [b EXCEPT !.sectors = sectors_after_get(b.sectors, n)]

\* the basis after get_sector(n_up, n_dn, sector)
basis_after_get_sector(b, n_up, n_dn, sector) ==
    IF IsNone(n_up) /\ IsNone(n_dn) /\ ~IsNone(sector) THEN b
    ELSE basis_after_get_spinstates(basis_after_get_spinstates(b, n_up), n_dn)

\* the basis after a get_next_sector or a next(gen) that returned r: where a
\* sector was built, get_sector was called with its fillings
basis_after_result(b, r) ==
    IF r.kind = "sector" /\ ~IsArg(r)
    THEN basis_after_get_sector(b, r.val.n_up, r.val.n_dn, None)
    ELSE b

\* the basis after get_sector was called for each of the sectors listed
RECURSIVE basis_after_sectors(_, _)
basis_after_sectors(b, sectors) ==
    IF sectors = <<>> THEN b
    ELSE basis_after_sectors(
             basis_after_get_sector(b, Head(sectors).n_up,
                                    Head(sectors).n_dn, None),
             Tail(sectors))

\* mutant: the filling of the passed sector is shifted in place
passed_sector_shifted(sector, sigma, delta) ==
    IF IsNone(sector) THEN sector
    ELSE IF sigma = UP /\ ~IsNone(sector[1].n_up)
         THEN Some([sector[1] EXCEPT !.n_up = Some(sector[1].n_up[1] + delta)])
         ELSE IF sigma # UP /\ ~IsNone(sector[1].n_dn)
              THEN Some([sector[1] EXCEPT
                            !.n_dn = Some(sector[1].n_dn[1] + delta)])
              ELSE sector

\* the sector passed to get_next_sector, after the call: the fillings are
\* unpacked into local names and only those are rebound
passed_sector_after(sector, sigma, delta) == sector

\* mutant: the ladder is walked with get_sector, which knows no end
RECURSIVE Walk_unchecked(_, _, _, _)
Walk_unchecked(b, sector, sigma, delta) ==
    LET new_up == IF sigma = UP /\ ~IsNone(sector.n_up)
                  THEN Some(sector.n_up[1] + delta) ELSE sector.n_up
        new_dn == IF sigma # UP /\ ~IsNone(sector.n_dn)
                  THEN Some(sector.n_dn[1] + delta) ELSE sector.n_dn
        shifted == IF sigma = UP THEN new_up ELSE new_dn
        r == get_sector(b, new_up, new_dn, None)
    IN IF r.kind = "sector" /\ ~IsNone(shifted)
          /\ shifted[1] \in (-1)..(b.num_sites + 1)
       THEN LET rest == Walk_unchecked(b, r.val, sigma, delta)
            IN [visited |-> <<r.val>> \o rest.visited, end |-> rest.end]
       ELSE [visited |-> <<>>, end |-> RetNone]

\* the loop `while sector is not None:
\*               sector = basis.get_next_sector(sector=sector, sigma, delta)`
\* for delta # 0: the sectors it visits, and the result that ends it
RECURSIVE Walk(_, _, _, _)
Walk(b, sector, sigma, delta) ==
    LET r == get_next_sector(b, None, None, Some(sector), sigma, delta)
    IN IF r.kind = "sector"
       THEN LET rest == Walk(b, r.val, sigma, delta)
            IN [visited |-> <<r.val>> \o rest.visited, end |-> rest.end]
       ELSE [visited |-> <<>>, end |-> r]

\* SpinSector.__init__(num_sites, n, states, sigma)
SpinSector(num_sites, n, states, sigma) ==
    [num_sites |-> num_sites, n |-> n, sigma |-> sigma, spinstates |-> states]

\* isinstance(s, SpinSector): the slots of the two sector classes differ
IsSpinSector(s) == "sigma" \in DOMAIN s

\* SpinSector.size: len(self.spinstates)
SpinSector_size(s) == Len(s.spinstates)

\* FockBasis.get_spin_sector(n, sigma)
get_spin_sector(b, n, sigma) ==
    LET states == get_spinstates(b, n)
    IN IF states.kind = "exc" THEN states
       ELSE [kind |-> "spin_sector",
             val |-> SpinSector(b.num_sites, n, states.val, sigma),
             refs |-> Refs(states)]

\* FockBasis.iter_fillings(2) as a tuple pool: product(self._fillings, repeat=2)
\* copies the fillings list when the generator body first runs; yielded is
\* the list of filling pairs of the sectors the caller has received so far
NewGen ==
    [started |-> FALSE, done |-> FALSE, pool |-> <<>>, pos |-> 0,
     yielded |-> <<>>]

\* mutant: both components of the pair are taken from the inner position
PoolPair_inner(pool, pos) ==
    <<pool[(pos % Len(pool)) + 1], pool[(pos % Len(pool)) + 1]>>

\* the pair product(pool, repeat=2) yields at position pos (0-based)
PoolPair(pool, pos) ==
    <<pool[(pos \div Len(pool)) + 1], pool[(pos % Len(pool)) + 1]>>

\* FockBasis.states, materialised: product(self._spinstates, repeat=2)
FockBasis_states(b) == Product(b.spinstates, b.spinstates)

\* mutant: only the pairs with n_up <= n_dn are visited
FockBasis_iter_sectors_sorted(b) ==
    LET pool == b.fillings
        all == [p \in 1..(Len(pool) * Len(pool)) |->
                   get_sector(b, Some(PoolPair(pool, p - 1)[1]),
                              Some(PoolPair(pool, p - 1)[2]), None).val]
    IN SelectSeq(all, LAMBDA sec : sec.n_up[1] <= sec.n_dn[1])

\* list(basis.iter_sectors()): the sectors of one uninterrupted iteration
FockBasis_iter_sectors(b) ==
    LET pool == b.fillings
    IN [p \in 1..(Len(pool) * Len(pool)) |->
           get_sector(b, Some(PoolPair(pool, p - 1)[1]),
                      Some(PoolPair(pool, p - 1)[2]), None).val]

\* ------------------------------------------------------------------------
\* Inputs
\* ------------------------------------------------------------------------

SiteArgs == 0..MaxSites
EnumArgs == 0..MaxEnumSites
StateArgs == 0..(Pow2(MaxSites) - 1)
PosArgs == 0..MaxSites
FillArgs == {None} \cup {Some(n) : n \in (-1)..(MaxSites + 1)}
StartArgs == {Some(n) : n \in 0..MaxSites}
Sigmas == {UP, DN}
Deltas == (-2)..2

Call(op, args, r) ==
    [op |-> op, args |-> args, kind |-> r.kind, val |-> r.val,
     is_arg |-> IsArg(r), refs |-> Refs(r)]

\* sector = <call>: the caller's variable after a call returning r
Assign(old, r) ==
    IF r.kind = "sector" THEN Some(r.val)
    ELSE IF r.kind = "none" THEN None
    ELSE old

\* ------------------------------------------------------------------------
\* Initial state: basis = FockBasis(), nothing called yet
\* ------------------------------------------------------------------------

Init ==
    /\ BITS = DefaultBits
    /\ basis = NewBasis(0)
    /\ held = None
    /\ gen = None
    /\ ret = Call("FockBasis", [num_sites |-> 0], RetNone)

\* ------------------------------------------------------------------------
\* Actions: free functions and SpinState methods
\* ------------------------------------------------------------------------

Create(num, pos) ==
    /\ ret' = Call("create", [num |-> num, pos |-> pos], RetOpt(create(num, pos)))
    /\ UNCHANGED <<BITS, basis, held, gen>>

Annihilate(num, pos) ==
    /\ ret' = Call("annihilate", [num |-> num, pos |-> pos],
                   RetOpt(annihilate(num, pos)))
    /\ UNCHANGED <<BITS, basis, held, gen>>

\* annihilate(create(num, pos), pos); annihilate(None, pos) raises TypeError
AnnihilateCreate(num, pos) ==
    /\ LET new == create(num, pos)
       IN ret' = Call("annihilate_create", [num |-> num, pos |-> pos],
                      IF IsNone(new) THEN RetExc("TypeError")
                      ELSE RetOpt(annihilate(new[1], pos)))
    /\ UNCHANGED <<BITS, basis, held, gen>>

SpinStateCreate(num, pos) ==
    /\ ret' = Call("SpinState.create", [num |-> num, pos |-> pos],
                   SpinState_create(num, pos))
    /\ UNCHANGED <<BITS, basis, held, gen>>

SpinStateAnnihilate(num, pos) ==
    /\ ret' = Call("SpinState.annihilate", [num |-> num, pos |-> pos],
                   SpinState_annihilate(num, pos))
    /\ UNCHANGED <<BITS, basis, held, gen>>

\* mutant: the enumeration leaves the default width as it is
CreateSpinstates_keep_width(num_sites) ==
    /\ LET r == create_spinstates(num_sites)
       IN ret' = Call("create_spinstates", [num_sites |-> num_sites],
                      IF IsNone(r) THEN RetExc("ValueError") ELSE RetList(r[1]))
    /\ UNCHANGED <<BITS, basis, held, gen>>

\* create_spinstates(num_sites): BITS is set before int() can raise
CreateSpinstates(num_sites) ==
    /\ BITS' = num_sites
    /\ LET r == create_spinstates(num_sites)
       IN ret' = Call("create_spinstates", [num_sites |-> num_sites],
                      IF IsNone(r) THEN RetExc("ValueError") ELSE RetList(r[1]))
    /\ UNCHANGED <<basis, held, gen>>

\* ------------------------------------------------------------------------
\* Actions: FockBasis
\* ------------------------------------------------------------------------

\* basis.init_basis(num_sites); prev is the site count of the call before,
\* if that was an init_basis too
\* mutant: init_basis refills the lists it already has, so a sector handed
\* out earlier sees the new enumeration
sector_after_init_basis_inplace(sector, b) ==
    IF "sigma" \in DOMAIN sector
    THEN [sector EXCEPT !.spinstates = get_spinstates(b, sector.n).val]
    ELSE [sector EXCEPT !.up_states = get_spinstates(b, sector.n_up).val,
                        !.dn_states = get_spinstates(b, sector.n_dn).val]

\* a sector handed out earlier, after init_basis made b of the basis: the
\* enumeration is a new list and the filling map a new defaultdict(list),
\* bound to the attributes; the lists the sector holds are not written
sector_after_init_basis(sector, b) == sector

InitBasis(num_sites) ==
    LET r == init_basis(basis, num_sites)
    IN /\ BITS' = num_sites
       /\ basis' = IF IsNone(r) THEN basis ELSE r[1]
       /\ ret' = Call("init_basis",
                      [num_sites |-> num_sites,
                       prev |-> IF ret.op = "init_basis"
                                THEN Some(ret.args.num_sites) ELSE None],
                      IF IsNone(r) THEN RetExc("ValueError") ELSE RetNone)
       /\ held' = IF IsNone(r) \/ IsNone(held) THEN held
                  ELSE Some(sector_after_init_basis(held[1], r[1]))
       /\ UNCHANGED gen

\* basis.get_spinstates(n)
GetSpinstates(n) ==
    /\ ret' = Call("get_spinstates", [n |-> n], get_spinstates(basis, n))
    /\ basis' = basis_after_get_spinstates(basis, n)
    /\ UNCHANGED <<BITS, held, gen>>

\* sector = basis.get_sector(n_up, n_dn, sector) ; passed: the caller's
\* sector is given as the `sector` argument
GetSector(n_up, n_dn, passed) ==
    LET sector == IF passed THEN held ELSE None
        r == get_sector(basis, n_up, n_dn, sector)
    IN /\ ret' = Call("get_sector",
                      [n_up |-> n_up, n_dn |-> n_dn, sector |-> sector], r)
       /\ held' = Assign(held, r)
       /\ basis' = basis_after_get_sector(basis, n_up, n_dn, sector)
       /\ UNCHANGED <<BITS, gen>>

\* sector = basis.get_next_sector(n_up, n_dn, sector, sigma, delta); of a
\* passed sector only the filling is read, and only that is recorded, as
\* it is before (start) and after the call (after)
GetNextSector(n_up, n_dn, passed, sigma, delta) ==
    LET sector == IF passed THEN held ELSE None
        r == get_next_sector(basis, n_up, n_dn, sector, sigma, delta)
    IN /\ ret' = Call("get_next_sector",
                      [n_up |-> n_up, n_dn |-> n_dn,
                       passed |-> ~IsNone(sector),
                       start |-> StartFilling(n_up, n_dn, sector),
                       after |-> StartFilling(n_up, n_dn,
                                    passed_sector_after(sector, sigma, delta)),
                       sigma |-> sigma, delta |-> delta], r)
       /\ held' = Assign(held, r)
       /\ basis' = basis_after_result(basis, r)
       /\ UNCHANGED <<BITS, gen>>

\* gen = basis.iter_sectors(): a generator object whose body has not run
IterSectors ==
    /\ gen' = Some(NewGen)
    /\ ret' = Call("iter_sectors", [n |-> None], RetNone)
    /\ UNCHANGED <<BITS, basis, held>>

\* sector = next(gen)
NextSector ==
    /\ ~IsNone(gen)
    /\ LET g == gen[1]
           pool == IF g.started THEN g.pool ELSE basis.fillings
           exhausted == g.done \/ g.pos >= Len(pool) * Len(pool)
           r == IF exhausted THEN RetExc("StopIteration")
                ELSE get_sector(basis, Some(PoolPair(pool, g.pos)[1]),
                                Some(PoolPair(pool, g.pos)[2]), None)
       IN /\ gen' = Some([started |-> TRUE,
                          done |-> exhausted \/ r.kind = "exc",
                          pool |-> pool,
                          pos |-> IF exhausted THEN g.pos ELSE g.pos + 1,
                          yielded |-> IF r.kind = "sector"
                                      THEN Append(g.yielded,
                                                  <<r.val.n_up, r.val.n_dn>>)
                                      ELSE g.yielded])
          /\ ret' = Call("next_sector",
                         [n_up |-> IF exhausted THEN None
                                   ELSE Some(PoolPair(pool, g.pos)[1]),
                          n_dn |-> IF exhausted THEN None
                                   ELSE Some(PoolPair(pool, g.pos)[2]),
                          pool |-> pool, fillings |-> basis.fillings], r)
          /\ held' = Assign(held, r)
          /\ basis' = basis_after_result(basis, r)
    /\ UNCHANGED BITS

\* ------------------------------------------------------------------------
\* Actions: several live generators. Here gen is the list of the caller's
\* generator objects g_1, g_2; the value a pull returns is not kept.
\* ------------------------------------------------------------------------

\* the caller's generator variables
Slots == {1, 2}

\* g_k = <a new generator g>
SetSlot(k, g) == IF k = Len(gen) + 1 THEN Append(gen, g) ELSE [gen EXCEPT ![k] = g]

\* iter(sector.states): the generator of BasisSector.states, whose body has
\* not run; product() copies the two lists when it first runs
NewStatesGen(sector) ==
    [started |-> FALSE, done |-> FALSE, pool |-> <<>>, pos |-> 0,
     yielded |-> <<>>, sector |-> sector]

IsStatesGen(g) == "sector" \in DOMAIN g

\* one next() on a generator g of iter_sectors whose cursor is at `at`:
\* the generator afterwards and the result
PullSector(g, b, at) ==
    LET pool == IF g.started THEN g.pool ELSE b.fillings
        exhausted == g.done \/ at >= Len(pool) * Len(pool)
        r == IF exhausted THEN RetExc("StopIteration")
             ELSE get_sector(b, Some(PoolPair(pool, at)[1]),
                             Some(PoolPair(pool, at)[2]), None)
    IN [g |-> [started |-> TRUE,
               done |-> exhausted \/ r.kind = "exc",
               pool |-> pool,
               pos |-> IF exhausted THEN at ELSE at + 1,
               yielded |-> IF r.kind = "sector"
                           THEN Append(g.yielded, <<r.val.n_up, r.val.n_dn>>)
                           ELSE g.yielded],
        r |-> r]

\* one next() on a generator g of BasisSector.states
PullState(g) ==
    LET pool == IF g.started THEN g.pool
                ELSE <<g.sector.up_states, g.sector.dn_states>>
        num_dn == Len(pool[2])
        exhausted == g.done \/ g.pos >= Len(pool[1]) * num_dn
        r == IF exhausted THEN RetExc("StopIteration")
             ELSE RetPair(<<pool[1][(g.pos \div num_dn) + 1],
                            pool[2][(g.pos % num_dn) + 1]>>)
    IN [g |-> [started |-> TRUE,
               done |-> exhausted,
               pool |-> pool,
               pos |-> IF exhausted THEN g.pos ELSE g.pos + 1,
               yielded |-> IF exhausted THEN g.yielded
                           ELSE Append(g.yielded, r.val),
               sector |-> g.sector],
        r |-> r]

\* g_k = basis.iter_sectors()
IterSectorsAt(k) ==
    /\ k <= Len(gen) + 1
    /\ gen' = SetSlot(k, NewGen)
    /\ ret' = Call("iter_sectors", [n |-> None, slot |-> k], RetNone)
    /\ UNCHANGED <<BITS, basis, held>>

\* mutant: the cursor of the iteration is shared by all generators
NextSectorAt_shared_cursor(k) ==
    /\ k <= Len(gen)
    /\ ~IsStatesGen(gen[k])
    /\ LET p == PullSector(gen[k], basis, gen[1].pos)
       IN /\ gen' = [gen EXCEPT ![k] = p.g]
          /\ ret' = Call("next_sector", [slot |-> k, pool |-> p.g.pool], p.r)
    /\ UNCHANGED <<BITS, basis, held>>

\* next(g_k) on a generator of iter_sectors
NextSectorAt(k) ==
    /\ k <= Len(gen)
    /\ ~IsStatesGen(gen[k])
    /\ LET p == PullSector(gen[k], basis, gen[k].pos)
       IN /\ gen' = [gen EXCEPT ![k] = p.g]
          /\ ret' = Call("next_sector", [slot |-> k, pool |-> p.g.pool], p.r)
    /\ UNCHANGED <<BITS, basis, held>>

\* g_k = iter(basis.get_sector(n_up, n_dn).states)
IterStatesAt(k, n_up, n_dn) ==
    /\ k <= Len(gen) + 1
    /\ LET r == get_sector(basis, n_up, n_dn, None)
       IN /\ gen' = IF r.kind = "sector" THEN SetSlot(k, NewStatesGen(r.val))
                    ELSE gen
          /\ ret' = Call("iter_states",
                         [n_up |-> n_up, n_dn |-> n_dn, slot |-> k],
                         IF r.kind = "sector" THEN RetNone ELSE r)
    /\ UNCHANGED <<BITS, basis, held>>

\* next(g_k) on a generator of BasisSector.states
NextStateAt(k) ==
    /\ k <= Len(gen)
    /\ IsStatesGen(gen[k])
    /\ LET p == PullState(gen[k])
       IN /\ gen' = [gen EXCEPT ![k] = p.g]
          /\ ret' = Call("next_state", [slot |-> k], p.r)
    /\ UNCHANGED <<BITS, basis, held>>

\* ------------------------------------------------------------------------
\* Actions: BasisSector methods on the caller's sector
\* ------------------------------------------------------------------------

\* sector.get_state_index(idx_up, idx_dn)
GetStateIndex(idx_up, idx_dn) ==
    /\ ~IsNone(held)
    /\ idx_up < Len(held[1].up_states)
    /\ idx_dn < Len(held[1].dn_states)
    /\ ret' = Call("get_state_index", [idx_up |-> idx_up, idx_dn |-> idx_dn],
                   RetInt(get_state_index(held[1], idx_up, idx_dn)))
    /\ UNCHANGED <<BITS, basis, held, gen>>

\* sector.get_spin_states(state_idx)
GetSpinStates(state_idx) ==
    /\ ~IsNone(held)
    /\ state_idx <= BasisSector_size(held[1])
    /\ ret' = Call("get_spin_states", [state_idx |-> state_idx],
                   get_spin_states(held[1], state_idx))
    /\ UNCHANGED <<BITS, basis, held, gen>>

\* sector.get_spin_states(sector.get_state_index(idx_up, idx_dn))
GetSpinStatesOfIndex(idx_up, idx_dn) ==
    /\ ~IsNone(held)
    /\ idx_up < Len(held[1].up_states)
    /\ idx_dn < Len(held[1].dn_states)
    /\ ret' = Call("get_spin_states_of_index",
                   [idx_up |-> idx_up, idx_dn |-> idx_dn],
                   get_spin_states(held[1],
                                   get_state_index(held[1], idx_up, idx_dn)))
    /\ UNCHANGED <<BITS, basis, held, gen>>

\* list(sector.states)
SectorStates ==
    /\ ~IsNone(held)
    /\ ret' = Call("states", [n |-> None], RetList(BasisSector_states(held[1])))
    /\ UNCHANGED <<BITS, basis, held, gen>>

\* sector.size
SectorSize ==
    /\ ~IsNone(held)
    /\ ret' = Call("size", [n |-> None], RetInt(BasisSector_size(held[1])))
    /\ UNCHANGED <<BITS, basis, held, gen>>

\* sector.shape
SectorShape ==
    /\ ~IsNone(held)
    /\ ret' = Call("shape", [n |-> None],
                   RetPair(StateContainer_shape(BasisSector_size(held[1]))))
    /\ UNCHANGED <<BITS, basis, held, gen>>

\* ------------------------------------------------------------------------
\* Specifications
\* ------------------------------------------------------------------------

\* the basis and its sector navigation
Next ==
    \/ \E n \in SiteArgs : InitBasis(n)
    \/ \E n \in FillArgs : GetSpinstates(n)
    \/ \E n_up, n_dn \in FillArgs : GetSector(n_up, n_dn, FALSE)
    \/ \E n \in {None, Some(0)} : GetSector(n, None, TRUE)
    \/ \E n_up, n_dn \in StartArgs, sigma \in Sigmas, delta \in Deltas :
          GetNextSector(n_up, n_dn, FALSE, sigma, delta)
    \/ \E sigma \in Sigmas : GetNextSector(None, None, FALSE, sigma, 1)
    \/ \E n \in {None, Some(0)}, sigma \in Sigmas, delta \in Deltas :
          GetNextSector(n, n, TRUE, sigma, delta)

Spec == Init /\ [][Next]_vars

\* the basis, its sectors and the generator of iter_sectors
NextIter ==
    \/ \E n \in SiteArgs : InitBasis(n)
    \/ \E n_up, n_dn \in FillArgs : GetSector(n_up, n_dn, FALSE)
    \/ \E sigma \in Sigmas, delta \in {-1, 1} :
          GetNextSector(None, None, TRUE, sigma, delta)
    \/ IterSectors
    \/ NextSector

SpecIter == Init /\ [][NextIter]_vars

\* ------------------------------------------------------------------------
\* Actions: digit strings and labels
\* ------------------------------------------------------------------------

\* values and widths passed to binstr / binarr
EncArgs == 0..(Pow2(MaxSites + 1) - 1)
DigitArgs == {None} \cup {Some(n) : n \in 0..MaxSites}

\* binstr(num, digits)
Binstr(num, digits) ==
    /\ ret' = Call("binstr", [num |-> num, digits |-> digits],
                   RetStr(binstr(num, digits)))
    /\ UNCHANGED <<BITS, basis, held, gen>>

\* binarr(num, digits)
Binarr(num, digits) ==
    /\ ret' = Call("binarr", [num |-> num, digits |-> digits],
                   RetList(binarr(num, digits)))
    /\ UNCHANGED <<BITS, basis, held, gen>>

\* overlap(num1, num2, digits)
Overlap(num1, num2, digits) ==
    /\ ret' = Call("overlap",
                   [num1 |-> num1, num2 |-> num2, digits |-> digits],
                   RetList(overlap(num1, num2, digits)))
    /\ UNCHANGED <<BITS, basis, held, gen>>

\* spinstate_label(spinstate, sigma, digits, bra, ket)
SpinstateLabel(spinstate, sigma, digits, bra, ket) ==
    /\ ret' = Call("spinstate_label",
                   [spinstate |-> spinstate, sigma |-> sigma,
                    digits |-> digits, bra |-> bra, ket |-> ket],
                   RetStr(spinstate_label(spinstate, sigma, digits, bra, ket)))
    /\ UNCHANGED <<BITS, basis, held, gen>>

\* basis.get_spin_sector(n, sigma).get_label(state, bra, ket)
GetLabel(n, sigma, state, bra, ket) ==
    LET states == get_spinstates(basis, n)
    IN /\ ret' = Call("get_label",
                      [n |-> n, sigma |-> sigma, state |-> state,
                       bra |-> bra, ket |-> ket],
                      IF states.kind = "exc" THEN states
                      ELSE RetStr(spinstate_label(state, sigma,
                                                  Some(basis.num_sites),
                                                  bra, ket)))
       /\ basis' = basis_after_get_spinstates(basis, n)
       /\ UNCHANGED <<BITS, held, gen>>

\* State(up, dn).label(digits, bra, ket)
StateLabel(up, dn, digits, bra, ket) ==
    /\ ret' = Call("State.label",
                   [up |-> up, dn |-> dn, digits |-> digits,
                    bra |-> bra, ket |-> ket],
                   RetStr(state_label(up, dn, digits, bra, ket)))
    /\ UNCHANGED <<BITS, basis, held, gen>>

\* str(SpinState(num)): Binary.__str__ is binstr(self)
StrOf(num) ==
    /\ ret' = Call("str", [num |-> num, digits |-> None],
                   RetStr(binstr(num, None)))
    /\ UNCHANGED <<BITS, basis, held, gen>>

\* ------------------------------------------------------------------------
\* Actions: the composite State; the caller's State object is the value of
\* the last result
\* ------------------------------------------------------------------------

RetState(st) == [kind |-> "state", val |-> st]

\* State(up, dn): the dataclass-generated __init__
State(up, dn) == [up |-> up, dn |-> dn]

\* setattr(state, name, value): State is a dataclass that is not frozen,
\* with __slots__ = ['up', 'dn']; any other name is an AttributeError
State_setattr(st, name, value) ==
    IF name \in {"up", "dn"} THEN RetState([st EXCEPT ![name] = value])
    ELSE RetExc("AttributeError")

\* s = State(up, dn)
NewState(up, dn) ==
    /\ ret' = Call("State", [up |-> up, dn |-> dn], RetState(State(up, dn)))
    /\ UNCHANGED <<BITS, basis, held, gen>>

\* s.<name> = value on the State last built or assigned to; the result is
\* the object afterwards
SetAttr(name, value) ==
    /\ ret.op \in {"State", "setattr"}
    /\ LET before == IF ret.kind = "state" THEN ret.val ELSE ret.args.before
           r == State_setattr(before, name, value)
       IN ret' = Call("setattr",
                      [before |-> before, name |-> name, value |-> value], r)
    /\ UNCHANGED <<BITS, basis, held, gen>>

\* composite states built and assigned to
NextState ==
    \/ \E up, dn \in StateArgs : NewState(up, dn)
    \/ \E name \in {"up", "dn", "n"}, value \in StateArgs : SetAttr(name, value)

SpecState == Init /\ [][NextState]_vars

\* list(basis.iter_sectors())
ListSectors ==
    /\ ret' = Call("list_sectors", [n |-> None],
                   RetList(FockBasis_iter_sectors(basis)))
    /\ basis' = basis_after_sectors(basis, FockBasis_iter_sectors(basis))
    /\ UNCHANGED <<BITS, held, gen>>

\* list(basis.states)
BasisStates ==
    /\ ret' = Call("basis_states", [n |-> None],
                   RetList(FockBasis_states(basis)))
    /\ UNCHANGED <<BITS, basis, held, gen>>

\* basis.size
BasisSize ==
    /\ ret' = Call("basis_size", [n |-> None], RetInt(basis.size))
    /\ UNCHANGED <<BITS, basis, held, gen>>

\* the whole space and its sectors
NextPartition ==
    \/ \E n \in SiteArgs : InitBasis(n)
    \/ \E n \in FillArgs : GetSpinstates(n)
    \/ ListSectors
    \/ BasisStates
    \/ BasisSize
    \/ IterSectors
    \/ NextSector

SpecPartition == Init /\ [][NextPartition]_vars

\* the ladder walk from the caller's sector; ret.val lists the fillings of
\* the sectors visited, the walk took one application more than that
WalkLadder(sigma, delta) ==
    /\ ~IsNone(held)
    /\ delta # 0
    /\ LET w == Walk(basis, held[1], sigma, delta)
       IN /\ ret' = Call("walk",
                         [start |-> <<held[1].n_up, held[1].n_dn>>,
                          sigma |-> sigma, delta |-> delta],
                         IF w.end.kind = "exc" THEN w.end
                         ELSE RetList([i \in 1..Len(w.visited) |->
                                          <<w.visited[i].n_up,
                                            w.visited[i].n_dn>>]))
          /\ held' = IF w.end.kind = "exc" THEN held ELSE None
    /\ UNCHANGED <<BITS, basis, gen>>

\* sector = basis.get_spin_sector(n, sigma)
GetSpinSector(n, sigma) ==
    LET r == get_spin_sector(basis, n, sigma)
    IN /\ ret' = Call("get_spin_sector", [n |-> n, sigma |-> sigma], r)
       /\ held' = IF r.kind = "spin_sector" THEN Some(r.val) ELSE held
       /\ basis' = basis_after_get_spinstates(basis, n)
       /\ UNCHANGED <<BITS, gen>>

\* set_global_bitnum(bits)
SetGlobalBitnum(bits) ==
    /\ BITS' = bits
    /\ ret' = Call("set_global_bitnum", [bits |-> bits], RetNone)
    /\ UNCHANGED <<basis, held, gen>>

\* sector.get_label(state, bra, ket) on the sector the caller holds: state
\* is the number up for a SpinSector and State(up, dn) for a BasisSector
SectorGetLabel(up, dn, bra, ket) ==
    /\ ~IsNone(held)
    /\ LET sector == held[1]
       IN ret' = Call(IF IsSpinSector(sector) THEN "SpinSector.get_label"
                      ELSE "BasisSector.get_label",
                      [num_sites |-> sector.num_sites,
                       sigma |-> IF IsSpinSector(sector) THEN sector.sigma
                                 ELSE 0,
                       up |-> up, dn |-> dn, bra |-> bra, ket |-> ket],
                      RetStr(IF IsSpinSector(sector)
                             THEN spinstate_label(up, sector.sigma,
                                                  Some(sector.num_sites),
                                                  bra, ket)
                             ELSE state_label(up, dn, Some(sector.num_sites),
                                              bra, ket)))
    /\ UNCHANGED <<BITS, basis, held, gen>>

\* basis.get_label(State(up, dn), bra, ket)
BasisGetLabel(up, dn, bra, ket) ==
    /\ ret' = Call("FockBasis.get_label",
                   [num_sites |-> basis.num_sites, sigma |-> 0,
                    up |-> up, dn |-> dn, bra |-> bra, ket |-> ket],
                   RetStr(state_label(up, dn, Some(basis.num_sites),
                                      bra, ket)))
    /\ UNCHANGED <<BITS, basis, held, gen>>

\* the three (bra, ket) settings that render differently
LabelFlags == {<<FALSE, FALSE>>, <<TRUE, FALSE>>, <<FALSE, TRUE>>}

\* labels asked of the three containers while the global width moves
NextContainerLabel ==
    \/ \E n \in SiteArgs : InitBasis(n)
    \/ \E bits \in 0..(MaxSites + 1) : SetGlobalBitnum(bits)
    \/ \E n_dn \in {None, Some(1)} : GetSector(Some(1), n_dn, FALSE)
    \/ \E sigma \in Sigmas : GetSpinSector(Some(1), sigma)
    \/ \E up \in StateArgs, dn \in {0, 1}, f \in LabelFlags :
          SectorGetLabel(up, dn, f[1], f[2])
    \/ \E up \in StateArgs, dn \in {0, 1}, f \in LabelFlags :
          BasisGetLabel(up, dn, f[1], f[2])

SpecContainerLabel == Init /\ [][NextContainerLabel]_vars

\* sectors of either kind kept by the caller across init_basis
NextStale ==
    \/ \E n \in SiteArgs : InitBasis(n)
    \/ \E n_up \in FillArgs, n_dn \in {None, Some(0), Some(1)} :
          GetSector(n_up, n_dn, FALSE)
    \/ \E n \in FillArgs, sigma \in Sigmas : GetSpinSector(n, sigma)

SpecStale == Init /\ [][NextStale]_vars

\* sectors obtained and the ladder walked from them
NextLadder ==
    \/ \E n \in SiteArgs : InitBasis(n)
    \/ \E n_up, n_dn \in FillArgs : GetSector(n_up, n_dn, FALSE)
    \/ \E sigma \in Sigmas, delta \in {-1, 1} : WalkLadder(sigma, delta)

SpecLadder == Init /\ [][NextLadder]_vars

\* every query of the basis, with arguments in and out of range
NextQueries ==
    \/ \E n \in SiteArgs : InitBasis(n)
    \/ \E n \in FillArgs : GetSpinstates(n)
    \/ \E n \in FillArgs, sigma \in {UP, DN} : GetLabel(n, sigma, 1, FALSE, FALSE)
    \/ \E n_up, n_dn \in FillArgs : GetSector(n_up, n_dn, FALSE)
    \/ \E n \in {None, Some(0)} : GetSector(n, None, TRUE)
    \/ \E n \in StartArgs, sigma \in Sigmas, delta \in {-1, 1} :
          GetNextSector(n, n, FALSE, sigma, delta)
    \/ \E sigma \in Sigmas, delta \in {-1, 1} :
          GetNextSector(None, None, TRUE, sigma, delta)
    \/ ListSectors

SpecQueries == Init /\ [][NextQueries]_vars

\* iterations started, pulled and interleaved at will
NextLazy ==
    \/ \E n \in SiteArgs : InitBasis(n)
    \/ \E k \in Slots : IterSectorsAt(k)
    \/ \E k \in Slots : NextSectorAt(k)
    \/ \E k \in Slots, n_up \in {Some(0), Some(1)} :
          IterStatesAt(k, n_up, Some(1))
    \/ \E k \in Slots : NextStateAt(k)

SpecLazy == Init /\ [][NextLazy]_vars

\* enumerations, and the renderings that take the default width
NextWidth ==
    \/ \E n \in SiteArgs : InitBasis(n)
    \/ \E n \in SiteArgs : CreateSpinstates(n)
    \/ \E num \in StateArgs, digits \in {None, Some(1)} : Binstr(num, digits)
    \/ \E num \in StateArgs : StrOf(num)
    \/ \E up, dn \in StateArgs, digits \in {None, Some(1)} :
          StateLabel(up, dn, digits, FALSE, TRUE)

SpecWidth == Init /\ [][NextWidth]_vars

\* the digit strings, under every default width
NextEncoding ==
    \/ \E n \in SiteArgs : CreateSpinstates(n)
    \/ \E num \in EncArgs, digits \in DigitArgs : Binstr(num, digits)
    \/ \E num \in EncArgs, digits \in DigitArgs : Binarr(num, digits)
    \/ \E num1, num2 \in StateArgs, digits \in DigitArgs :
          Overlap(num1, num2, digits)

SpecEncoding == Init /\ [][NextEncoding]_vars

\* the labels of single-species states
NextLabel ==
    \/ \E n \in SiteArgs : InitBasis(n)
    \/ \E spinstate \in StateArgs, sigma \in {UP, DN, 0},
          digits \in DigitArgs, bra, ket \in BOOLEAN :
          SpinstateLabel(spinstate, sigma, digits, bra, ket)
    \/ \E n \in {None, Some(1)}, sigma \in {UP, DN}, state \in StateArgs,
          bra, ket \in BOOLEAN :
          GetLabel(n, sigma, state, bra, ket)

SpecLabel == Init /\ [][NextLabel]_vars

\* enumeration, (re-)initialisation and the buckets read back
NextEnum ==
    \/ \E n \in SiteArgs : InitBasis(n)
    \/ \E n \in EnumArgs : CreateSpinstates(n)
    \/ \E n \in FillArgs : GetSpinstates(n)

SpecEnum == Init /\ [][NextEnum]_vars

\* the free functions and the SpinState methods
NextPure ==
    \/ \E num \in StateArgs, pos \in PosArgs : Create(num, pos)
    \/ \E num \in StateArgs, pos \in PosArgs : Annihilate(num, pos)
    \/ \E num \in StateArgs, pos \in PosArgs : AnnihilateCreate(num, pos)
    \/ \E num \in StateArgs, pos \in PosArgs : SpinStateCreate(num, pos)
    \/ \E num \in StateArgs, pos \in PosArgs : SpinStateAnnihilate(num, pos)
    \/ \E n \in EnumArgs : CreateSpinstates(n)

SpecPure == Init /\ [][NextPure]_vars

\* the index arithmetic of a sector
MaxIdx == Pow2(MaxSites)

NextSectorOps ==
    \/ \E n \in SiteArgs : InitBasis(n)
    \/ \E n_up, n_dn \in FillArgs : GetSector(n_up, n_dn, FALSE)
    \/ \E idx_up, idx_dn \in 0..MaxIdx : GetStateIndex(idx_up, idx_dn)
    \/ \E state_idx \in 0..(MaxIdx * MaxIdx) : GetSpinStates(state_idx)
    \/ \E idx_up, idx_dn \in 0..MaxIdx : GetSpinStatesOfIndex(idx_up, idx_dn)
    \/ SectorStates
    \/ SectorSize
    \/ SectorShape

SpecSector == Init /\ [][NextSectorOps]_vars

\* ------------------------------------------------------------------------
\* Vocabulary of the properties
\* ------------------------------------------------------------------------

\* the occupied sites of a state, read off its value
OccupiedSites(num) == {i \in 0..(MaxEnumSites + 2) : (num \div (2 ^ i)) % 2 = 1}

\* the particle number of a state
Filling(num) == Cardinality(OccupiedSites(num))

\* the values of a list, and whether it lists no value twice
Range(list) == {list[i] : i \in 1..Len(list)}
NoDuplicates(list) == Cardinality(Range(list)) = Len(list)

Ascending(list) == \A i \in 1..(Len(list) - 1) : list[i] < list[i + 1]

\* all states of n sites
AllStates(n) == 0..((2 ^ n) - 1)

\* ------------------------------------------------------------------------
\* C1: for every site count N in [0, 8] create_spinstates(N) yields exactly
\* 2^N distinct states, each an integer in [0, 2^N - 1].
\* Refuted at N = 0, where int("", base=2) raises ValueError.
\* ------------------------------------------------------------------------
C1_EnumerationComplete ==
    ret.op = "create_spinstates" =>
        /\ ret.kind = "list"
        /\ Len(ret.val) = 2 ^ ret.args.num_sites
        /\ NoDuplicates(ret.val)
        /\ Range(ret.val) \subseteq AllStates(ret.args.num_sites)

\* the same statement for N >= 1, which the code satisfies
C1_EnumerationFromOne ==
    (ret.op = "create_spinstates" /\ ret.args.num_sites >= 1) =>
        /\ ret.kind = "list"
        /\ Len(ret.val) = 2 ^ ret.args.num_sites
        /\ NoDuplicates(ret.val)
        /\ Range(ret.val) \subseteq AllStates(ret.args.num_sites)

\* ------------------------------------------------------------------------
\* C2: after init_basis(N) the filling buckets are a set partition of the
\* enumeration: their union is 0..2^N-1, no state is listed twice (in one
\* bucket or in two), and every state of bucket k has k particles.
\* ------------------------------------------------------------------------
C2_BucketsPartition ==
    ~basis.is_class =>
        LET keys == Range(basis.sectors.keys)
            bucket(k) == basis.sectors.map[k]
        IN /\ DOMAIN basis.sectors.map = keys
           /\ UNION {Range(bucket(k)) : k \in keys} = AllStates(basis.num_sites)
           /\ \A k \in keys : NoDuplicates(bucket(k))
           /\ \A k, l \in keys : k # l => Range(bucket(k)) \cap Range(bucket(l)) = {}
           /\ \A k \in keys : \A s \in Range(bucket(k)) : Filling(s) = k

C2_Witness ==
    /\ ret.op = "init_basis"
    /\ ret.kind = "none"
    /\ basis.num_sites = 2
    /\ Len(basis.sectors.map[1]) = 2

\* ------------------------------------------------------------------------
\* C3: create(s, i) returns none iff site i of s is occupied, and otherwise
\* a state that differs from s exactly in site i (one particle more);
\* annihilate(s, i) returns none iff site i is vacant, and otherwise s with
\* only site i vacated (one particle less).
\* ------------------------------------------------------------------------
C3_CreateAnnihilate ==
    /\ ret.op = "create" =>
          /\ ret.kind \in {"none", "int"}
          /\ ret.kind = "none" <=> ret.args.pos \in OccupiedSites(ret.args.num)
          /\ ret.kind = "int" =>
                /\ OccupiedSites(ret.val)
                      = OccupiedSites(ret.args.num) \cup {ret.args.pos}
                /\ Filling(ret.val) = Filling(ret.args.num) + 1
    /\ ret.op = "annihilate" =>
          /\ ret.kind \in {"none", "int"}
          /\ ret.kind = "none" <=> ret.args.pos \notin OccupiedSites(ret.args.num)
          /\ ret.kind = "int" =>
                /\ OccupiedSites(ret.val)
                      = OccupiedSites(ret.args.num) \ {ret.args.pos}
                /\ Filling(ret.val) = Filling(ret.args.num) - 1

C3_Witness ==
    /\ ret.op = "create"
    /\ ret.kind = "int"
    /\ ret.args.num = 1
    /\ ret.args.pos = 1
    /\ ret.val = 3

\* ------------------------------------------------------------------------
\* C4: round trip: whenever create(s, i) succeeds,
\* annihilate(create(s, i), i) = s.
\* ------------------------------------------------------------------------
C4_RoundTrip ==
    (ret.op = "annihilate_create"
        /\ ret.args.pos \notin OccupiedSites(ret.args.num)) =>
        /\ ret.kind = "int"
        /\ ret.val = ret.args.num

C4_Witness ==
    /\ ret.op = "annihilate_create"
    /\ ret.args.num = 2
    /\ ret.args.pos = 0
    /\ ret.kind = "int"

\* ------------------------------------------------------------------------
\* C5: SpinState.create(i) returns the none sentinel without raising when
\* site i is occupied, and SpinState.annihilate(i) returns it without
\* raising when site i is vacant.
\* Refuted: SpinState(None) raises TypeError.
\* ------------------------------------------------------------------------
C5_MethodSentinel ==
    /\ (ret.op = "SpinState.create"
          /\ ret.args.pos \in OccupiedSites(ret.args.num)) => ret.kind = "none"
    /\ (ret.op = "SpinState.annihilate"
          /\ ret.args.pos \notin OccupiedSites(ret.args.num)) => ret.kind = "none"

\* ------------------------------------------------------------------------
\* C6: get_state_index / get_spin_states are a row-major flattening of the
\* sector: a valid index pair is mapped into [0, size) onto the position of
\* its pair in `states` (hence one-to-one), and get_spin_states(k) is the
\* k-th pair of `states` for every k in [0, size).
\* Refuted: the multiplier is size instead of len(dn_states).
\* ------------------------------------------------------------------------
C6_RowMajor ==
    ~IsNone(held) =>
        LET sector == held[1]
            states == BasisSector_states(sector)
        IN /\ ret.op = "get_state_index" =>
                 /\ ret.val \in 0..(BasisSector_size(sector) - 1)
                 /\ ret.val = ret.args.idx_up * Len(sector.dn_states)
                                 + ret.args.idx_dn
                 /\ states[ret.val + 1]
                       = <<sector.up_states[ret.args.idx_up + 1],
                           sector.dn_states[ret.args.idx_dn + 1]>>
           /\ (ret.op = "get_spin_states"
                 /\ ret.args.state_idx < BasisSector_size(sector)) =>
                 /\ ret.kind = "pair"
                 /\ ret.val = states[ret.args.state_idx + 1]

\* ------------------------------------------------------------------------
\* C7: get_spin_states inverts get_state_index: for every valid index pair
\* get_spin_states(get_state_index(idx_up, idx_dn)) is
\* (up_states[idx_up], dn_states[idx_dn]).
\* ------------------------------------------------------------------------
C7_IndexInverse ==
    (ret.op = "get_spin_states_of_index" /\ ~IsNone(held)) =>
        /\ ret.kind = "pair"
        /\ ret.val = <<held[1].up_states[ret.args.idx_up + 1],
                       held[1].dn_states[ret.args.idx_dn + 1]>>

C7_Witness ==
    /\ ret.op = "get_spin_states_of_index"
    /\ ret.args.idx_up = 1
    /\ ret.args.idx_dn = 1
    /\ held[1].n_up = Some(1)
    /\ ret.kind = "pair"
    /\ ret.val = <<2, 2>>

\* ------------------------------------------------------------------------
\* C8: every BasisSector produced by get_sector, get_next_sector or
\* iter_sectors, for any arguments, has only up_states of n_up particles
\* and only dn_states of n_dn particles.
\* Refuted by the fallback of get_spinstates: for a filling that is None or
\* not in the catalogue the sector holds the full enumeration.
\* ------------------------------------------------------------------------
SectorInvariant(sector) ==
    /\ ~IsNone(sector.n_up)
    /\ ~IsNone(sector.n_dn)
    /\ \A s \in Range(sector.up_states) : Filling(s) = sector.n_up[1]
    /\ \A s \in Range(sector.dn_states) : Filling(s) = sector.n_dn[1]

Produced ==
    ret.kind = "sector" /\ ret.op \in {"get_sector", "get_next_sector", "next_sector"}

C8_AnySectorInvariant == Produced => SectorInvariant(ret.val)

\* C8 as amended: a sector that get_sector builds for two fillings of the
\* basis's catalogue satisfies the invariant; so does every sector that
\* get_next_sector returns, and every sector that iter_sectors yields while
\* the catalogue is the one the iteration started with.
InCatalogue(n) == ~IsNone(n) /\ InList(n[1], basis.fillings)

C8_CatalogueSectorInvariant ==
    /\ (Produced /\ ret.op = "get_sector"
          /\ InCatalogue(ret.args.n_up) /\ InCatalogue(ret.args.n_dn))
          => SectorInvariant(ret.val)
    /\ (Produced /\ ret.op = "get_next_sector") => SectorInvariant(ret.val)
    /\ (Produced /\ ret.op = "next_sector" /\ ret.args.pool = ret.args.fillings)
          => SectorInvariant(ret.val)

C8_Witness ==
    /\ Produced
    /\ ret.op = "next_sector"
    /\ ret.args.pool = ret.args.fillings
    /\ ret.val.n_up = Some(1)
    /\ ret.val.n_dn = Some(2)
    /\ Len(ret.val.up_states) = 2

\* ------------------------------------------------------------------------
\* C9: on a basis initialised with N >= 1 sites get_spinstates(n) returns
\* the bucket of filling n for n in 0..N and the complete enumeration for
\* any other n (None, negative, greater than N), without raising; so
\* get_sector() with None fillings spans the full single-species basis.
\* ------------------------------------------------------------------------
C9_SpinstatesFallback ==
    (~basis.is_class /\ basis.num_sites >= 1) =>
        /\ ret.op = "get_spinstates" =>
              /\ ret.kind = "list"
              /\ Ascending(ret.val)
              /\ Range(ret.val) =
                    IF ~IsNone(ret.args.n) /\ ret.args.n[1] \in 0..basis.num_sites
                    THEN {s \in AllStates(basis.num_sites) :
                             Filling(s) = ret.args.n[1]}
                    ELSE AllStates(basis.num_sites)
        /\ (ret.op = "get_sector" /\ IsNone(ret.args.n_up)
              /\ IsNone(ret.args.n_dn) /\ IsNone(ret.args.sector)) =>
              /\ ret.kind = "sector"
              /\ Ascending(ret.val.up_states)
              /\ Ascending(ret.val.dn_states)
              /\ Range(ret.val.up_states) = AllStates(basis.num_sites)
              /\ Range(ret.val.dn_states) = AllStates(basis.num_sites)

C9_Witness ==
    /\ ~basis.is_class
    /\ basis.num_sites = 2
    /\ ret.op = "get_spinstates"
    /\ ret.args.n = Some(3)
    /\ ret.val = <<0, 1, 2, 3>>

\* ------------------------------------------------------------------------
\* C10: for a basis of N sites and a start filling pair within [0, N],
\* get_next_sector returns the sector with the filling of species sigma
\* shifted by delta and the other filling unchanged, and none exactly when
\* the shifted filling is outside [0, N]; for N = 2, (1,1) + up gives the
\* sector (2,1) and (2,1) + up gives none.
\* Refuted on the basis FockBasis() of 0 sites, whose catalogue is empty.
\* ------------------------------------------------------------------------
StartInRange(n) ==
    /\ ~IsNone(ret.args.start[n])
    /\ ret.args.start[n][1] \in 0..basis.num_sites

ShiftedFilling ==
    IF ret.args.sigma = UP
    THEN <<ret.args.start[1][1] + ret.args.delta, ret.args.start[2][1]>>
    ELSE <<ret.args.start[1][1], ret.args.start[2][1] + ret.args.delta>>

NextSectorAsClaimed ==
    IF ShiftedFilling[1] \in 0..basis.num_sites
          /\ ShiftedFilling[2] \in 0..basis.num_sites
    THEN /\ ret.kind = "sector"
         /\ ret.val.num_sites = basis.num_sites
         /\ ret.val.n_up = Some(ShiftedFilling[1])
         /\ ret.val.n_dn = Some(ShiftedFilling[2])
         /\ Range(ret.val.up_states) =
               {s \in AllStates(basis.num_sites) : Filling(s) = ShiftedFilling[1]}
         /\ Range(ret.val.dn_states) =
               {s \in AllStates(basis.num_sites) : Filling(s) = ShiftedFilling[2]}
    ELSE ret.kind = "none"

C10_NextSector ==
    (ret.op = "get_next_sector" /\ StartInRange(1) /\ StartInRange(2))
        => NextSectorAsClaimed

\* the same statement on an initialised basis, which the code satisfies
C10_NextSectorInitialised ==
    (ret.op = "get_next_sector" /\ StartInRange(1) /\ StartInRange(2)
        /\ ~basis.is_class) => NextSectorAsClaimed

\* the two scenarios of the claim, N = 2
C10_Scenarios ==
    (ret.op = "get_next_sector" /\ basis.num_sites = 2 /\ ~basis.is_class
        /\ ret.args.sigma = UP /\ ret.args.delta = 1
        /\ ret.args.start[2] = Some(1)) =>
        /\ ret.args.start[1] = Some(1) =>
              (ret.kind = "sector" /\ ret.val.n_up = Some(2)
                 /\ ret.val.n_dn = Some(1) /\ ret.val.up_states = <<3>>
                 /\ ret.val.dn_states = <<1, 2>>)
        /\ ret.args.start[1] = Some(2) => ret.kind = "none"

\* ------------------------------------------------------------------------
\* C11: on a basis initialised with N >= 1 sites iter_sectors() yields
\* exactly (N+1)^2 sectors, one for every filling pair (n_up, n_dn) with
\* n_up, n_dn in 0..N, each pair exactly once.
\* ------------------------------------------------------------------------
FillingPairs(n) == {<<Some(u), Some(d)>> : u \in 0..n, d \in 0..n}

\* the iteration has run to its end on the basis as it is now
IterationComplete ==
    /\ ret.op = "next_sector"
    /\ ret.kind = "exc"
    /\ ret.val = "StopIteration"
    /\ ret.args.pool = basis.fillings
    /\ ~basis.is_class
    /\ basis.num_sites >= 1

C11_AllSectorsOnce ==
    /\ IterationComplete =>
          /\ Len(gen[1].yielded) = (basis.num_sites + 1) * (basis.num_sites + 1)
          /\ Range(gen[1].yielded) = FillingPairs(basis.num_sites)
          /\ NoDuplicates(gen[1].yielded)
    /\ (ret.op = "next_sector" /\ ret.kind = "sector"
          /\ ret.args.pool = basis.fillings) =>
          /\ NoDuplicates(gen[1].yielded)
          /\ <<ret.val.n_up, ret.val.n_dn>> \in FillingPairs(basis.num_sites)
          /\ ret.val.num_sites = basis.num_sites

C11_Witness ==
    /\ IterationComplete
    /\ basis.num_sites = 2
    /\ Len(gen[1].yielded) = 9

\* ------------------------------------------------------------------------
\* C12: iterating BasisSector.states yields the Cartesian product of
\* up_states and dn_states, outer loop over up_states and inner loop over
\* dn_states, `size` states in all; for N = 2 and the sector (1, 1) the
\* lists are both [1, 2], the size is 4 and the states come out as
\* (1,1), (1,2), (2,1), (2,2).
\* ------------------------------------------------------------------------
C12_StatesNestedProduct ==
    (ret.op = "states" /\ ~IsNone(held)) =>
        LET up == held[1].up_states
            dn == held[1].dn_states
        IN /\ ret.kind = "list"
           /\ Len(ret.val) = Len(up) * Len(dn)
           /\ Len(ret.val) = BasisSector_size(held[1])
           /\ \A i \in 1..Len(up) : \A j \in 1..Len(dn) :
                 ret.val[(i - 1) * Len(dn) + j] = <<up[i], dn[j]>>
           /\ (held[1].num_sites = 2 /\ held[1].n_up = Some(1)
                 /\ held[1].n_dn = Some(1)) =>
                 /\ up = <<1, 2>>
                 /\ dn = <<1, 2>>
                 /\ BasisSector_size(held[1]) = 4
                 /\ ret.val = << <<1, 1>>, <<1, 2>>, <<2, 1>>, <<2, 2>> >>

C12_Witness ==
    /\ ret.op = "states"
    /\ held[1].num_sites = 2
    /\ held[1].n_up = Some(1)
    /\ held[1].n_dn = Some(1)
    /\ Len(ret.val) = 4

\* ------------------------------------------------------------------------
\* C13: for every filling pair BasisSector.size is
\* len(up_states) * len(dn_states), the number of composite states of the
\* sector, and shape is (size, size).
\* ------------------------------------------------------------------------
C13_SizeIsProduct ==
    ~IsNone(held) =>
        LET count == Cardinality(Range(held[1].up_states)
                                    \X Range(held[1].dn_states))
        IN /\ ret.op = "size" =>
                 /\ ret.kind = "int"
                 /\ ret.val = Len(held[1].up_states) * Len(held[1].dn_states)
                 /\ ret.val = count
           /\ ret.op = "shape" =>
                 /\ ret.kind = "pair"
                 /\ ret.val = <<count, count>>

C13_Witness ==
    /\ ret.op = "size"
    /\ held[1].n_up = Some(1)
    /\ held[1].n_dn = Some(3)
    /\ held[1].num_sites = 2
    /\ ret.val = 8

\* ------------------------------------------------------------------------
\* C14: after any sequence of init_basis calls with N >= 1 the basis
\* reflects only the most recent N: num_sites = N, size = (2^N)^2, the
\* enumeration is exactly 0..2^N-1 and the fillings catalogue is exactly
\* 0..N; nothing of an earlier initialisation remains.
\* ------------------------------------------------------------------------
UpTo(n) == [i \in 1..(n + 1) |-> i - 1]

C14_OnlyLatestInit ==
    /\ (ret.op = "init_basis" /\ ret.args.num_sites >= 1) =>
          /\ ret.kind = "none"
          /\ basis.num_sites = ret.args.num_sites
    /\ ~basis.is_class =>
          /\ basis.size = (2 ^ basis.num_sites) * (2 ^ basis.num_sites)
          /\ basis.spinstates = UpTo((2 ^ basis.num_sites) - 1)
          /\ basis.fillings = UpTo(basis.num_sites)
          /\ basis.sectors.keys = UpTo(basis.num_sites)
          /\ DOMAIN basis.sectors.map = 0..basis.num_sites
          /\ \A k \in 0..basis.num_sites :
                Range(basis.sectors.map[k]) \subseteq AllStates(basis.num_sites)

C14_Witness ==
    /\ ret.op = "init_basis"
    /\ ret.args.prev = Some(2)
    /\ ret.args.num_sites = 1
    /\ ret.kind = "none"
    /\ basis.num_sites = 1
    /\ basis.size = 4

\* ------------------------------------------------------------------------
\* C15: init_basis(N) called twice in a row with the same N leaves the
\* filling partition, the enumeration, the fillings and the size value-wise
\* equal to those after the first call.
\* ------------------------------------------------------------------------
C15_InitIdempotent ==
    [][(ret.op = "init_basis" /\ ret.kind = "none"
          /\ ret'.op = "init_basis"
          /\ ret'.args.num_sites = ret.args.num_sites)
        => /\ basis'.sectors = basis.sectors
           /\ basis'.spinstates = basis.spinstates
           /\ basis'.fillings = basis.fillings
           /\ basis'.size = basis.size
           /\ basis'.num_sites = basis.num_sites]_vars

C15_Witness ==
    /\ ret.op = "init_basis"
    /\ ret.kind = "none"
    /\ ret.args.num_sites = 2
    /\ ret.args.prev = Some(2)
    /\ basis.num_sites = 2

\* ------------------------------------------------------------------------
\* C16: get_sector called with an existing BasisSector as `sector` and no
\* fillings returns that very instance, unchanged, and builds no new sector.
\* ------------------------------------------------------------------------
Passthrough ==
    /\ ret.op = "get_sector"
    /\ IsNone(ret.args.n_up)
    /\ IsNone(ret.args.n_dn)
    /\ ~IsNone(ret.args.sector)

C16_SectorPassthrough ==
    /\ Passthrough =>
          /\ ret.kind = "sector"
          /\ ret.is_arg
          /\ ret.val = ret.args.sector[1]
          /\ held = ret.args.sector
    /\ (ret.op = "get_sector" /\ ~Passthrough) => ~ret.is_arg

C16_Witness ==
    /\ Passthrough
    /\ ret.is_arg
    /\ ~basis.is_class
    /\ ret.val.num_sites = 1
    /\ basis.num_sites = 2
    /\ ret.val.n_up = Some(1)
    /\ ret.val.up_states = <<1>>

\* ------------------------------------------------------------------------
\* C17: spin-state 1 on N = 2 sites for the up species renders in ket
\* notation as exactly |u.> (u the up arrow); in general the label has
\* max(N, bits needed for the value) positions, and position i carries the
\* species glyph (up arrow for up, down arrow otherwise) if and only if
\* site i is occupied, and the empty glyph otherwise.
\* The value 0 is written with one binary digit, so it needs one bit.
\* ------------------------------------------------------------------------
BitsNeeded(num) ==
    IF num = 0 THEN 1
    ELSE CHOOSE k \in 1..(MaxEnumSites + 2) : 2 ^ (k - 1) <= num /\ num < 2 ^ k

\* the label without its brackets
Positions(label, bra, ket) ==
    IF bra \/ ket THEN SubSeq(label, 2, Len(label) - 1) ELSE label

LabelAsClaimed(label, num, sigma, width, bra, ket) ==
    LET inner == Positions(label, bra, ket)
        glyph == IF sigma = 1 THEN "u" ELSE "d"
    IN /\ Len(inner) = Max(width, BitsNeeded(num))
       /\ \A i \in 0..(Len(inner) - 1) :
             inner[i + 1] = IF i \in OccupiedSites(num) THEN glyph ELSE "."
       /\ bra => (Len(label) = Len(inner) + 2
                    /\ label[1] = "<" /\ label[Len(label)] = "|")
       /\ (~bra /\ ket) => (Len(label) = Len(inner) + 2
                              /\ label[1] = "|" /\ label[Len(label)] = ">")

C17_LabelRendering ==
    /\ ret.op = "spinstate_label" =>
          /\ ret.kind = "str"
          /\ LabelAsClaimed(ret.val, ret.args.spinstate, ret.args.sigma,
                            IF IsNone(ret.args.digits) THEN BITS
                            ELSE ret.args.digits[1],
                            ret.args.bra, ret.args.ket)
          /\ (ret.args.spinstate = 1 /\ ret.args.sigma = 1
                /\ ret.args.digits = Some(2)
                /\ ~ret.args.bra /\ ret.args.ket)
             => ret.val = <<"|", "u", ".", ">">>
    /\ (ret.op = "get_label" /\ ~basis.is_class) =>
          /\ ret.kind = "str"
          /\ LabelAsClaimed(ret.val, ret.args.state, ret.args.sigma,
                            basis.num_sites, ret.args.bra, ret.args.ket)

C17_Witness ==
    /\ ret.op = "spinstate_label"
    /\ ret.args.spinstate = 1
    /\ ret.args.sigma = 1
    /\ ret.args.digits = Some(2)
    /\ ~ret.args.bra
    /\ ret.args.ket
    /\ ret.val = <<"|", "u", ".", ">">>

\* ------------------------------------------------------------------------
\* C18: binstr(num, digits) and binarr(num, digits) have exactly
\* max(digits, bits needed for num) digits; an explicitly passed width
\* overrides the default BITS, which is used only when no width is passed;
\* the digit at index i is bit i of num.
\* ------------------------------------------------------------------------
DigitsAsClaimed(val, num, digits, one, zero) ==
    LET width == IF IsNone(digits) THEN BITS ELSE digits[1]
    IN /\ Len(val) = Max(width, BitsNeeded(num))
       /\ \A i \in 0..(Len(val) - 1) :
             val[i + 1] = IF i \in OccupiedSites(num) THEN one ELSE zero

C18_DigitWidth ==
    /\ ret.op = "binstr" =>
          /\ ret.kind = "str"
          /\ DigitsAsClaimed(ret.val, ret.args.num, ret.args.digits, "1", "0")
    /\ ret.op = "binarr" =>
          /\ ret.kind = "list"
          /\ DigitsAsClaimed(ret.val, ret.args.num, ret.args.digits, 1, 0)

C18_Witness ==
    /\ ret.op = "binstr"
    /\ ret.args.num = 6
    /\ ret.args.digits = Some(2)
    /\ BITS = 4
    /\ ret.val = <<"0", "1", "1">>

\* ------------------------------------------------------------------------
\* C19: overlap(a, b) is the digit array of the bitwise AND of a and b:
\* for every site i within the width, element i is 1 if and only if site i
\* is occupied in both a and b, and 0 otherwise.
\* ------------------------------------------------------------------------
C19_OverlapIsAnd ==
    ret.op = "overlap" =>
       /\ ret.kind = "list"
       /\ Len(ret.val) >= (IF IsNone(ret.args.digits) THEN BITS
                           ELSE ret.args.digits[1])
       /\ \A i \in 0..(Len(ret.val) - 1) :
             /\ ret.val[i + 1] \in {0, 1}
             /\ ret.val[i + 1] = 1 <=>
                   (i \in OccupiedSites(ret.args.num1)
                       /\ i \in OccupiedSites(ret.args.num2))
       /\ \A i \in OccupiedSites(ret.args.num1)
                      \cap OccupiedSites(ret.args.num2) : i < Len(ret.val)

C19_Witness ==
    /\ ret.op = "overlap"
    /\ ret.args.num1 = 3
    /\ ret.args.num2 = 1
    /\ ret.args.digits = Some(2)
    /\ ret.val = <<1, 0>>

\* ------------------------------------------------------------------------
\* C20: the enumeration returns states in strictly increasing integer value
\* (not grouped by popcount), and each filling bucket built by init_basis
\* lists its states in that same order, strictly ascending within a bucket.
\* ------------------------------------------------------------------------
C20_EnumerationOrder ==
    /\ (ret.op = "create_spinstates" /\ ret.kind = "list") =>
          /\ Ascending(ret.val)
          /\ ret.args.num_sites >= 3 =>
                \E i \in 1..(Len(ret.val) - 1) :
                    Filling(ret.val[i]) > Filling(ret.val[i + 1])
    /\ ~basis.is_class =>
          /\ Ascending(basis.spinstates)
          /\ \A k \in DOMAIN basis.sectors.map :
                /\ Ascending(basis.sectors.map[k])
                /\ basis.sectors.map[k] =
                      SelectSeq(basis.spinstates, LAMBDA x : Filling(x) = k)
    /\ (ret.op = "get_spinstates" /\ ret.kind = "list") => Ascending(ret.val)

C20_Witness ==
    /\ ret.op = "get_spinstates"
    /\ ret.args.n = Some(1)
    /\ basis.num_sites = 2
    /\ ret.val = <<1, 2>>
    /\ basis.spinstates = <<0, 1, 2, 3>>

\* ------------------------------------------------------------------------
\* C21: after any sequence of enumerations with N >= 1 (create_spinstates,
\* init_basis) the default digit width BITS equals the site count of the
\* most recent enumeration: every such enumeration sets it, no other call
\* changes it; so binstr / str / State.label without an explicit width
\* render a state of an earlier basis at the newest site count.
\* ------------------------------------------------------------------------
Enumerations == {"create_spinstates", "init_basis"}

C21_WidthFollowsEnumeration ==
    [][/\ (ret'.op \in Enumerations /\ ret'.args.num_sites >= 1)
             => BITS' = ret'.args.num_sites
       /\ ret'.op \notin Enumerations => BITS' = BITS
       /\ (ret'.op \in {"binstr", "str"} /\ IsNone(ret'.args.digits))
             => Len(ret'.val) = Max(BITS, BitsNeeded(ret'.args.num))
       /\ (ret'.op = "State.label" /\ IsNone(ret'.args.digits))
             => Len(ret'.val) - 2 =
                   Max(BITS, Max(BitsNeeded(ret'.args.up),
                                 BitsNeeded(ret'.args.dn)))]_vars

\* state 1 of the 1-site basis is rendered with two digits after a later
\* enumeration for two sites
C21_Witness ==
    /\ ret.op = "str"
    /\ ret.args.num = 1
    /\ basis.num_sites = 1
    /\ ~basis.is_class
    /\ BITS = 2
    /\ ret.val = <<"1", "0">>

\* ------------------------------------------------------------------------
\* C22: the lazy sequences are restartable and side-effect free: every
\* iteration of BasisSector.states and every iter_sectors() yields the same
\* finite sequence from the start, of length size resp. (N+1)^2, however
\* many other iterations were run, fully or partially, and however the
\* pulls are interleaved.
\* Refuted on the basis of 0 sites, whose iter_sectors() yields nothing
\* where (0+1)^2 = 1 sector is claimed.
\* ------------------------------------------------------------------------
IsPrefix(a, b) == Len(a) <= Len(b) /\ a = SubSeq(b, 1, Len(a))

\* the filling pairs of an N-site basis in the order of the iteration
ExpectedPairs(n) ==
    [p \in 1..((n + 1) * (n + 1)) |->
        <<Some((p - 1) \div (n + 1)), Some((p - 1) % (n + 1))>>]

\* the composite states of a sector in the order of the iteration
ExpectedStates(sector) ==
    LET up == sector.up_states
        dn == sector.dn_states
    IN [p \in 1..(Len(up) * Len(dn)) |->
           <<up[((p - 1) \div Len(dn)) + 1], dn[((p - 1) % Len(dn)) + 1]>>]

\* what generator g has yielded so far is the start of the sequence `full`,
\* and all of it once g is exhausted
YieldsFromStart(g, full) ==
    /\ g.pos = Len(g.yielded)
    /\ IsPrefix(g.yielded, full)
    /\ g.done => g.yielded = full

\* the site count of the basis a started iter_sectors generator runs on
SitesOf(g) == IF g.pool = <<>> THEN 0 ELSE Len(g.pool) - 1

C22_LazyRestartable ==
    \A k \in 1..Len(gen) :
        IF IsStatesGen(gen[k])
        THEN /\ YieldsFromStart(gen[k], ExpectedStates(gen[k].sector))
             /\ Len(ExpectedStates(gen[k].sector))
                   = BasisSector_size(gen[k].sector)
        ELSE gen[k].started =>
                YieldsFromStart(gen[k], ExpectedPairs(SitesOf(gen[k])))

\* the same, for iterations of an initialised basis (N >= 1) only
C22_LazyRestartableInitialised ==
    \A k \in 1..Len(gen) :
        IF IsStatesGen(gen[k])
        THEN /\ YieldsFromStart(gen[k], ExpectedStates(gen[k].sector))
             /\ Len(ExpectedStates(gen[k].sector))
                   = BasisSector_size(gen[k].sector)
        ELSE (gen[k].started /\ gen[k].pool # <<>>) =>
                YieldsFromStart(gen[k], ExpectedPairs(SitesOf(gen[k])))

\* two interleaved iterations of the 2-site basis, one run to its end
C22_Interleaved ==
    /\ Len(gen) = 2
    /\ ~IsStatesGen(gen[1])
    /\ ~IsStatesGen(gen[2])
    /\ gen[1].done
    /\ Len(gen[1].yielded) = 9
    /\ Len(gen[2].yielded) = 4

\* ------------------------------------------------------------------------
\* C23: sectors hold references, not copies: for fillings in 0..N the
\* up_states / dn_states of a sector returned by get_sector are the basis's
\* own bucket lists, so two sectors for the same filling (and the two sides
\* of a sector with n_up = n_dn) share one list, and the sector owns no
\* state list that the basis does not own.
\* ------------------------------------------------------------------------
InRange(n) == ~IsNone(n) /\ n[1] \in 0..basis.num_sites

\* the list objects the basis owns
OwnedLists ==
    {SpinstatesSlot} \cup {SectorsSlot(k) : k \in DOMAIN basis.sectors.map}

\* the list found as `states` through reference `ref` for filling n is the
\* bucket of n, which a filling in 0..N determines alone
IsBucketOf(n, ref, states) ==
    InRange(n) => /\ ref = SectorsSlot(n[1])
                  /\ states = basis.sectors.map[n[1]]

C23_SectorsShareLists ==
    /\ (ret.op = "get_sector" /\ ret.kind = "sector" /\ ~ret.is_arg) =>
          /\ Len(ret.refs) = 2
          /\ IsBucketOf(ret.args.n_up, ret.refs[1], ret.val.up_states)
          /\ IsBucketOf(ret.args.n_dn, ret.refs[2], ret.val.dn_states)
          /\ (InRange(ret.args.n_up) /\ ret.args.n_up = ret.args.n_dn)
                => ret.refs[1] = ret.refs[2]
          /\ ret.refs[1] \in OwnedLists
          /\ ret.refs[2] \in OwnedLists
    /\ (ret.op = "get_spinstates" /\ ret.kind = "list") =>
          /\ IsBucketOf(ret.args.n, ret.refs[1], ret.val)
          /\ ret.refs[1] \in OwnedLists

C23_Witness ==
    /\ ret.op = "get_sector"
    /\ ret.kind = "sector"
    /\ basis.num_sites = 2
    /\ ret.args.n_up = Some(1)
    /\ ret.args.n_dn = Some(1)
    /\ ret.refs = <<SectorsSlot(1), SectorsSlot(1)>>
    /\ ret.val.up_states = <<1, 2>>

\* ------------------------------------------------------------------------
\* C24: a composite State is immutable once constructed: no operation,
\* including assigning to its up or dn attribute, changes the pair it
\* represents.
\* Refuted: State is not a frozen dataclass, s.up = value succeeds.
\* ------------------------------------------------------------------------
C24_StateImmutable ==
    ret.op = "setattr" =>
       \/ ret.kind = "exc"
       \/ ret.val = ret.args.before

\* ------------------------------------------------------------------------
\* C25: for a basis initialised with N >= 1 sites the sizes of the sectors
\* yielded by iter_sectors() sum to FockBasis.size = (2^N)^2, and every
\* composite state yielded by FockBasis.states occurs in exactly one of
\* those sectors, the one with (n_up, n_dn) = (popcount(up), popcount(dn)).
\* ------------------------------------------------------------------------
RECURSIVE SumOfSizes(_)
SumOfSizes(sectors) ==
    IF sectors = <<>> THEN 0
    ELSE BasisSector_size(Head(sectors)) + SumOfSizes(Tail(sectors))

\* the positions of the sectors that hold the composite state st
SectorsHolding(sectors, st) ==
    {i \in 1..Len(sectors) : st \in Range(BasisSector_states(sectors[i]))}

C25_SectorsPartitionSpace ==
    (~basis.is_class /\ basis.num_sites >= 1) =>
       /\ ret.op = "list_sectors" =>
             /\ SumOfSizes(ret.val) = basis.size
             /\ basis.size = (2 ^ basis.num_sites) * (2 ^ basis.num_sites)
             /\ \A i \in 1..Len(ret.val) :
                   NoDuplicates(BasisSector_states(ret.val[i]))
             /\ \A st \in Range(FockBasis_states(basis)) :
                   /\ Cardinality(SectorsHolding(ret.val, st)) = 1
                   /\ \A i \in SectorsHolding(ret.val, st) :
                         /\ ret.val[i].n_up = Some(Filling(st[1]))
                         /\ ret.val[i].n_dn = Some(Filling(st[2]))
       /\ (ret.op = "next_sector" /\ ret.kind = "sector"
             /\ ret.args.pool = basis.fillings) =>
             ret.val = FockBasis_iter_sectors(basis)[gen[1].pos]
       /\ ret.op = "basis_states" =>
             /\ Len(ret.val) = basis.size
             /\ NoDuplicates(ret.val)
             /\ Range(ret.val) =
                   AllStates(basis.num_sites) \X AllStates(basis.num_sites)
       /\ ret.op = "basis_size" =>
             ret.val = (2 ^ basis.num_sites) * (2 ^ basis.num_sites)

C25_Witness ==
    /\ ret.op = "list_sectors"
    /\ basis.num_sites = 2
    /\ Len(ret.val) = 9
    /\ SumOfSizes(ret.val) = 16
    /\ SectorsHolding(ret.val, <<1, 3>>) = {6}

\* ------------------------------------------------------------------------
\* C26: a FockBasis constructed with site count 0 (init_basis is not run)
\* still honours the lookup fallback: get_spinstates(n) returns its (empty)
\* full spin-state list and get_sector(n_up, n_dn) returns a sector of size
\* 0, for any fillings including None, without raising.
\* Refuted: self._sectors is the class defaultdict, its get raises TypeError.
\* ------------------------------------------------------------------------
C26_ZeroSiteFallback ==
    (basis.is_class /\ basis.num_sites = 0) =>
       /\ ret.op = "get_spinstates" =>
             /\ ret.kind = "list"
             /\ ret.val = <<>>
       /\ (ret.op = "get_sector" /\ IsNone(ret.args.sector)) =>
             /\ ret.kind = "sector"
             /\ BasisSector_size(ret.val) = 0

\* ------------------------------------------------------------------------
\* C27: the query operations of an initialised FockBasis are read-only: any
\* sequence of get_spinstates, get_spin_sector, get_sector, get_next_sector
\* and iter_sectors calls, with any arguments including None and
\* out-of-range fillings, leaves num_sites, size, the enumeration, the
\* filling map (no bucket is added for an unknown filling) and the fillings
\* catalogue unchanged, and get_next_sector leaves the filling of a sector
\* passed to it unchanged.
\* ------------------------------------------------------------------------
QueryOps ==
    {"get_spinstates", "get_label", "get_sector", "get_next_sector",
     "list_sectors"}

C27_QueriesReadOnly ==
    [][ret'.op \in QueryOps =>
          /\ basis'.num_sites = basis.num_sites
          /\ basis'.size = basis.size
          /\ basis'.spinstates = basis.spinstates
          /\ basis'.sectors = basis.sectors
          /\ basis'.fillings = basis.fillings
          /\ (ret'.op = "get_next_sector" /\ ret'.args.passed)
                => ret'.args.after = ret'.args.start]_vars

\* an unknown filling was looked up and the map still has its N + 1 buckets
C27_Witness ==
    /\ ret.op = "get_sector"
    /\ ret.args.n_up = Some(3)
    /\ ret.args.n_dn = Some(-1)
    /\ ret.kind = "sector"
    /\ basis.num_sites = 2
    /\ basis.sectors.keys = <<0, 1, 2>>
    /\ DOMAIN basis.sectors.map = {0, 1, 2}

\* ------------------------------------------------------------------------
\* C28: walking the particle-number ladder terminates: starting from any
\* sector of an N-site basis whose species-sigma filling is n, feeding the
\* result back into get_next_sector with the same sigma and delta = +1
\* visits the fillings n+1, ..., N of that species in order (other species
\* unchanged) and returns none on exactly the (N - n + 1)-th application;
\* with delta = -1 it visits n-1, ..., 0 and returns none on the (n + 1)-th.
\* Refuted for a sector whose other filling is None or outside 0..N: the
\* first application returns none.
\* ------------------------------------------------------------------------
\* the fillings of the walk from (n_up, n_dn) over `steps` sectors
LadderFrom(start, sigma, delta, steps) ==
    [i \in 1..steps |->
        IF sigma = 1 THEN <<Some(start[1][1] + i * delta), start[2]>>
        ELSE <<start[1], Some(start[2][1] + i * delta)>>]

\* the walk recorded in ret is the one claimed, for the filling n of the
\* species walked
LadderAsClaimed(n) ==
    LET steps == IF ret.args.delta = 1 THEN basis.num_sites - n ELSE n
    IN /\ ret.kind = "list"
       /\ Len(ret.val) = steps
       /\ ret.val = LadderFrom(ret.args.start, ret.args.sigma,
                               ret.args.delta, steps)

WalkedFilling ==
    IF ret.args.sigma = 1 THEN ret.args.start[1] ELSE ret.args.start[2]

C28_LadderAnySector ==
    (ret.op = "walk" /\ ~basis.is_class /\ ~IsNone(WalkedFilling)
        /\ WalkedFilling[1] \in 0..basis.num_sites)
       => LadderAsClaimed(WalkedFilling[1])

\* amended: both fillings of the start sector lie in 0..N
C28_LadderCatalogueSector ==
    (ret.op = "walk" /\ ~basis.is_class
        /\ InRange(ret.args.start[1]) /\ InRange(ret.args.start[2]))
       => /\ LadderAsClaimed(WalkedFilling[1])
          /\ IsNone(held)

C28_Witness ==
    /\ ret.op = "walk"
    /\ basis.num_sites = 2
    /\ ret.args.start = <<Some(0), Some(1)>>
    /\ ret.args.sigma = 1
    /\ ret.args.delta = 1
    /\ ret.val = <<(<<Some(1), Some(1)>>), (<<Some(2), Some(1)>>)>>

\* ------------------------------------------------------------------------
\* C29: a BasisSector or SpinSector obtained before a later init_basis(M)
\* with a different site count is not changed by the re-initialisation: it
\* keeps its num_sites, fillings, state lists and size, and no longer
\* matches what the re-initialised basis returns for the same fillings.
\* ------------------------------------------------------------------------
\* the basis was re-initialised by this step, to another site count than
\* that of the sector the caller holds
Reinitialised ==
    /\ ret'.op = "init_basis"
    /\ ret'.kind # "exc"
    /\ ~IsNone(held)
    /\ held[1].num_sites # basis'.num_sites

SectorKept(old, new) ==
    /\ new.num_sites = old.num_sites
    /\ IsSpinSector(new) = IsSpinSector(old)
    /\ IF IsSpinSector(old)
       THEN /\ new.n = old.n
            /\ new.sigma = old.sigma
            /\ new.spinstates = old.spinstates
            /\ SpinSector_size(new) = SpinSector_size(old)
       ELSE /\ new.n_up = old.n_up
            /\ new.n_dn = old.n_dn
            /\ new.up_states = old.up_states
            /\ new.dn_states = old.dn_states
            /\ BasisSector_size(new) = BasisSector_size(old)

FreshSector(b, old) ==
    IF IsSpinSector(old) THEN get_spin_sector(b, old.n, old.sigma).val
    ELSE get_sector(b, old.n_up, old.n_dn, None).val

C29_StaleSectorKept ==
    [][Reinitialised =>
          /\ ~IsNone(held')
          /\ SectorKept(held[1], held'[1])
          /\ ~SectorKept(FreshSector(basis', held[1]), held'[1])]_vars

C29_Witness ==
    /\ ret.op = "init_basis"
    /\ ret.kind # "exc"
    /\ basis.num_sites = 1
    /\ ~IsNone(held)
    /\ held[1].num_sites = 2
    /\ ~IsSpinSector(held[1])
    /\ held[1].n_up = Some(1)
    /\ held[1].up_states = <<1, 2>>
    /\ FreshSector(basis, held[1]).up_states = <<1>>

\* ------------------------------------------------------------------------
\* C30: container labels do not depend on the process-wide width: the
\* result of SpinSector.get_label, BasisSector.get_label and
\* FockBasis.get_label is determined by the state, the bra/ket flags and
\* the container's own num_sites only, whatever the value of the global
\* BITS at the time of the call.
\* ------------------------------------------------------------------------
\* the two-species label of (up, dn) at the given width, in words of the
\* occupied sites only
StateLabelAsClaimed(label, up, dn, width, bra, ket) ==
    LET inner == Positions(label, bra, ket)
    IN /\ Len(inner) = Max(width, Max(BitsNeeded(up), BitsNeeded(dn)))
       /\ \A i \in 0..(Len(inner) - 1) :
             inner[i + 1] =
                IF i \in OccupiedSites(up) /\ i \in OccupiedSites(dn) THEN "x"
                ELSE IF i \in OccupiedSites(up) THEN "u"
                ELSE IF i \in OccupiedSites(dn) THEN "d"
                ELSE "."
       /\ label = IF bra THEN <<"<">> \o inner \o <<"|">>
                  ELSE IF ket THEN <<"|">> \o inner \o <<">">>
                  ELSE inner

ContainerLabelOps ==
    {"SpinSector.get_label", "BasisSector.get_label", "FockBasis.get_label"}

C30_ContainerLabelsIgnoreBits ==
    ret.op \in ContainerLabelOps =>
       /\ ret.kind = "str"
       /\ IF ret.op = "SpinSector.get_label"
          THEN LabelAsClaimed(ret.val, ret.args.up, ret.args.sigma,
                              ret.args.num_sites, ret.args.bra, ret.args.ket)
          ELSE StateLabelAsClaimed(ret.val, ret.args.up, ret.args.dn,
                                   ret.args.num_sites,
                                   ret.args.bra, ret.args.ket)

\* a sector of a 1-site basis labels State(1, 1) in one position while the
\* global width is larger
C30_Witness ==
    /\ ret.op = "BasisSector.get_label"
    /\ BITS = MaxSites + 1
    /\ ret.args.num_sites = 1
    /\ ret.args.up = 1
    /\ ret.args.dn = 1
    /\ ret.args.ket
    /\ ret.val = <<"|", "x", ">">>

=============================================================================
